---- MODULE Spec2Model ----
(***************************************************************************)
(* Model of the resprs key-value server (src/src/main.rs): the shared      *)
(* store `db` (a HashMap<Bytes, RedisValue> behind one std Mutex), the     *)
(* monotonic clock read by Instant::now(), and the command dispatcher      *)
(* handle_command with every command arm it contains.                      *)
(*                                                                         *)
(* Bytes are modelled as sequences of byte values (ASCII codes).  The      *)
(* monotonic clock counts ticks, TicksPerSec ticks to the second, so that  *)
(* the flooring of Duration::as_secs is visible.  Signed 64-bit integers   *)
(* are scaled to IntBits bits (two's complement range), since the checker  *)
(* has no 64-bit integers; every overflow test is made against that range. *)
(***************************************************************************)
EXTENDS Integers, Sequences, FiniteSets, TLC

\* ---------------------------------------------------------------- bounds
\* Width in bits of the scaled "i64".
IntBits == 3
\* Clock resolution: ticks per second.
TicksPerSec == 2
\* Last clock reading the model explores.
MaxTime == 3

RECURSIVE Pow2(_)
Pow2(n) == IF n = 0 THEN 1 ELSE 2 * Pow2(n - 1)

I64_MAX == Pow2(IntBits - 1) - 1
I64_MIN == 0 - Pow2(IntBits - 1)

\* ------------------------------------------------------ decimal text <-> i64
IsDigit(b) == b >= 48 /\ b <= 57

\* std::str::from_utf8: the model's byte alphabet is ASCII plus 0xFF, and a
\* byte >= 0x80 never starts a valid sequence on its own.
from_utf8_ok(bytes) == \A i \in 1..Len(bytes) : bytes[i] < 128

\* i64::from_str digit loop: checked_mul(10) then checked_add (positive) or
\* checked_sub (negative) of each digit; a non-digit or an overflow is Err.
RECURSIVE ParseDigits(_, _, _, _)
ParseDigits(bytes, i, acc, neg) ==
    IF i > Len(bytes) THEN [ok |-> TRUE, val |-> acc]
    ELSE IF ~IsDigit(bytes[i]) THEN [ok |-> FALSE, val |-> 0]
    ELSE LET d == bytes[i] - 48
             m == acc * 10
             n == IF neg THEN m - d ELSE m + d
         IN  IF m < I64_MIN \/ m > I64_MAX \/ n < I64_MIN \/ n > I64_MAX
             THEN [ok |-> FALSE, val |-> 0]
             ELSE ParseDigits(bytes, i + 1, n, neg)

\* A parse that reads any text that is not a run of digits as 0.
parse_i64_or_zero(bytes) ==
    IF Len(bytes) > 0 /\ \A i \in 1..Len(bytes) : IsDigit(bytes[i])
    THEN ParseDigits(bytes, 1, 0, FALSE)
    ELSE [ok |-> TRUE, val |-> 0]

\* str::parse::<i64>: empty, a lone sign, a non-digit or an out-of-range value
\* is Err; one leading '+' or '-' is accepted, as are leading zeros.
parse_i64(bytes) ==
    IF Len(bytes) = 0 THEN [ok |-> FALSE, val |-> 0]
    ELSE IF bytes[1] = 45 \/ bytes[1] = 43
         THEN IF Len(bytes) = 1 THEN [ok |-> FALSE, val |-> 0]
              ELSE ParseDigits(bytes, 2, 0, bytes[1] = 45)
         ELSE ParseDigits(bytes, 1, 0, FALSE)

RECURSIVE NatDigits(_)
NatDigits(n) ==
    IF n < 10 THEN <<48 + n>> ELSE Append(NatDigits(n \div 10), 48 + (n % 10))

\* A to_string that drops the sign.
to_string_unsigned(n) == IF n < 0 THEN NatDigits(0 - n) ELSE NatDigits(n)

\* i64::to_string: canonical decimal text, '-' for negatives, no '+', no
\* leading zeros.
to_string(n) == IF n < 0 THEN <<45>> \o NatDigits(0 - n) ELSE NatDigits(n)

\* i64::wrapping_add in the place of saturating_add.
wrapping_add(a, b) == ((a + b - I64_MIN) % Pow2(IntBits)) + I64_MIN

\* i64::saturating_add
saturating_add(a, b) ==
    IF a + b > I64_MAX THEN I64_MAX
    ELSE IF a + b < I64_MIN THEN I64_MIN
    ELSE a + b

\* ------------------------------------------------------------- RespFrame
\* Text of a SimpleString / Error is a sequence of segments: <<lit>> for a
\* literal of the program, <<"", bytes>> for text that came off the wire and
\* <<lit, bytes, lit>> for a format! with one interpolated name.
SimpleString(s) == [t |-> "SimpleString", v |-> <<s>>]
Error(s)        == [t |-> "Error", v |-> <<s>>]
Integer(n)      == [t |-> "Integer", v |-> n]
BulkString(b)   == [t |-> "BulkString", v |-> b]
Array(xs)       == [t |-> "Array", v |-> xs]
Null            == [t |-> "Null", v |-> <<>>]

IsBulk(f) == f.t = "BulkString"

\* --------------------------------------------------------------- RedisValue
\* Option<Instant>: <<>> is None, <<t>> is Some(t), t a clock reading in ticks.
None == <<>>
Some(t) == <<t>>
RedisValue(data, expires_at) == [data |-> data, expires_at |-> expires_at]

\* is_expired with the comparison turned round.
is_expired_flipped(value, now) ==
    IF value.expires_at # None THEN value.expires_at[1] > now ELSE FALSE

\* RedisValue::is_expired at clock reading `now`
is_expired(value, now) ==
    IF value.expires_at # None THEN value.expires_at[1] < now ELSE FALSE

\* ------------------------------------------------- HashMap<Bytes, RedisValue>
EmptyMap == [k \in {} |-> RedisValue(<<>>, None)]
contains_key(m, k) == k \in DOMAIN m
insert(m, k, val) == [x \in (DOMAIN m) \cup {k} |-> IF x = k THEN val ELSE m[x]]
remove(m, k) == [x \in (DOMAIN m) \ {k} |-> m[x]]

\* ------------------------------------------------------ Instant and Duration
\* Instant + Duration::from_secs(seconds): the seconds field of the Instant is
\* a signed 64-bit count and the addition is checked; `ok` is FALSE where the
\* `+` operator panics ("overflow when adding duration to instant").
instant_add(now, seconds) ==
    [ok |-> (now \div TicksPerSec) + seconds <= I64_MAX,
     at |-> now + seconds * TicksPerSec]

\* instant.saturating_duration_since(now).as_secs()
remaining_secs(instant, now) ==
    (IF instant > now THEN instant - now ELSE 0) \div TicksPerSec

\* ------------------------------------------------------ handler outcomes
\* What one call of handle_command leaves behind: the reply frame, the map,
\* whether the mutex is poisoned, and whether the call panicked (no reply).
NoReply == [t |-> "Panic", v |-> <<>>]
Ret(reply, m, poisoned) ==
    [reply |-> reply, db |-> m, poisoned |-> poisoned, panic |-> FALSE]
\* db.lock().unwrap() on a poisoned mutex, or a panic while the guard is held
\* (the guard's drop during unwinding poisons the mutex).
Panic(m) == [reply |-> NoReply, db |-> m, poisoned |-> TRUE, panic |-> TRUE]

\* ------------------------------------------------------------ command names
\* An uppercase mapping that changes nothing.
to_upper_byte_none(b) == b
to_upper_byte(b) == IF b >= 97 /\ b <= 122 THEN b - 32 ELSE b
to_uppercase(bytes) == [i \in 1..Len(bytes) |-> to_upper_byte(bytes[i])]
\* String::from_utf8_lossy: an invalid byte becomes U+FFFD.
from_utf8_lossy(bytes) ==
    [i \in 1..Len(bytes) |-> IF bytes[i] < 128 THEN bytes[i] ELSE 65533]

PING    == <<80, 73, 78, 71>>
ECHO    == <<69, 67, 72, 79>>
COMMAND == <<67, 79, 77, 77, 65, 78, 68>>
SET     == <<83, 69, 84>>
GET     == <<71, 69, 84>>
DEL     == <<68, 69, 76>>
EXISTS  == <<69, 88, 73, 83, 84, 83>>
EXPIRE  == <<69, 88, 80, 73, 82, 69>>
TTL     == <<84, 84, 76>>
INCR    == <<73, 78, 67, 82>>
DECR    == <<68, 69, 67, 82>>
KEYS    == <<75, 69, 89, 83>>
MSET    == <<77, 83, 69, 84>>
MGET    == <<77, 71, 69, 84>>
STRLEN  == <<83, 84, 82, 76, 69, 78>>
GETSET  == <<71, 69, 84, 83, 69, 84>>
APPEND  == <<65, 80, 80, 69, 78, 68>>

\* str::as_bytes of the string literals of main.rs (UTF-8, all ASCII).
literal_bytes(s) ==
    CASE s = "ERR wrong number of arguments" ->
             <<69, 82, 82, 32, 119, 114, 111, 110, 103, 32, 110, 117, 109,
               98, 101, 114, 32, 111, 102, 32, 97, 114, 103, 117, 109, 101,
               110, 116, 115>>
      [] s = "ERR key is not a BulkString" ->
             <<69, 82, 82, 32, 107, 101, 121, 32, 105, 115, 32, 110, 111,
               116, 32, 97, 32, 66, 117, 108, 107, 83, 116, 114, 105, 110,
               103>>
      [] s = "ERR value is not valid UTF-8" ->
             <<69, 82, 82, 32, 118, 97, 108, 117, 101, 32, 105, 115, 32, 110,
               111, 116, 32, 118, 97, 108, 105, 100, 32, 85, 84, 70, 45, 56>>
      [] s = "ERR value is not an integer" ->
             <<69, 82, 82, 32, 118, 97, 108, 117, 101, 32, 105, 115, 32, 110,
               111, 116, 32, 97, 110, 32, 105, 110, 116, 101, 103, 101, 114>>
      [] s = "PONG" ->
             <<80, 79, 78, 71>>
      [] s = "ERR wrong number of arguments for 'ping' command" ->
             <<69, 82, 82, 32, 119, 114, 111, 110, 103, 32, 110, 117, 109,
               98, 101, 114, 32, 111, 102, 32, 97, 114, 103, 117, 109, 101,
               110, 116, 115, 32, 102, 111, 114, 32, 39, 112, 105, 110, 103,
               39, 32, 99, 111, 109, 109, 97, 110, 100>>
      [] s = "ERR wrong number of arguments for 'echo' command" ->
             <<69, 82, 82, 32, 119, 114, 111, 110, 103, 32, 110, 117, 109,
               98, 101, 114, 32, 111, 102, 32, 97, 114, 103, 117, 109, 101,
               110, 116, 115, 32, 102, 111, 114, 32, 39, 101, 99, 104, 111,
               39, 32, 99, 111, 109, 109, 97, 110, 100>>
      [] s = "ERR wrong number of argument for 'set' command" ->
             <<69, 82, 82, 32, 119, 114, 111, 110, 103, 32, 110, 117, 109,
               98, 101, 114, 32, 111, 102, 32, 97, 114, 103, 117, 109, 101,
               110, 116, 32, 102, 111, 114, 32, 39, 115, 101, 116, 39, 32,
               99, 111, 109, 109, 97, 110, 100>>
      [] s = "ERR value is not BulkString" ->
             <<69, 82, 82, 32, 118, 97, 108, 117, 101, 32, 105, 115, 32, 110,
               111, 116, 32, 66, 117, 108, 107, 83, 116, 114, 105, 110, 103>>
      [] s = "OK" ->
             <<79, 75>>
      [] s = "DEL must have atleast one key to be deleted" ->
             <<68, 69, 76, 32, 109, 117, 115, 116, 32, 104, 97, 118, 101, 32,
               97, 116, 108, 101, 97, 115, 116, 32, 111, 110, 101, 32, 107,
               101, 121, 32, 116, 111, 32, 98, 101, 32, 100, 101, 108, 101,
               116, 101, 100>>
      [] s = "EXISTS must have atleast one key to be checked" ->
             <<69, 88, 73, 83, 84, 83, 32, 109, 117, 115, 116, 32, 104, 97,
               118, 101, 32, 97, 116, 108, 101, 97, 115, 116, 32, 111, 110,
               101, 32, 107, 101, 121, 32, 116, 111, 32, 98, 101, 32, 99,
               104, 101, 99, 107, 101, 100>>
      [] s = "ERR wrong number of arguments for 'expire' command" ->
             <<69, 82, 82, 32, 119, 114, 111, 110, 103, 32, 110, 117, 109,
               98, 101, 114, 32, 111, 102, 32, 97, 114, 103, 117, 109, 101,
               110, 116, 115, 32, 102, 111, 114, 32, 39, 101, 120, 112, 105,
               114, 101, 39, 32, 99, 111, 109, 109, 97, 110, 100>>
      [] s = "ERR expiry is not a BulkString" ->
             <<69, 82, 82, 32, 101, 120, 112, 105, 114, 121, 32, 105, 115,
               32, 110, 111, 116, 32, 97, 32, 66, 117, 108, 107, 83, 116,
               114, 105, 110, 103>>
      [] s = "ERR expiry is not valid UTF-8" ->
             <<69, 82, 82, 32, 101, 120, 112, 105, 114, 121, 32, 105, 115,
               32, 110, 111, 116, 32, 118, 97, 108, 105, 100, 32, 85, 84, 70,
               45, 56>>
      [] s = "ERR expiry is not a valid integer" ->
             <<69, 82, 82, 32, 101, 120, 112, 105, 114, 121, 32, 105, 115,
               32, 110, 111, 116, 32, 97, 32, 118, 97, 108, 105, 100, 32,
               105, 110, 116, 101, 103, 101, 114>>
      [] s = "ERR wrong number of arguments for 'ttl' command" ->
             <<69, 82, 82, 32, 119, 114, 111, 110, 103, 32, 110, 117, 109,
               98, 101, 114, 32, 111, 102, 32, 97, 114, 103, 117, 109, 101,
               110, 116, 115, 32, 102, 111, 114, 32, 39, 116, 116, 108, 39,
               32, 99, 111, 109, 109, 97, 110, 100>>
      [] s = "ERR wrong number of arguments for 'keys' command" ->
             <<69, 82, 82, 32, 119, 114, 111, 110, 103, 32, 110, 117, 109,
               98, 101, 114, 32, 111, 102, 32, 97, 114, 103, 117, 109, 101,
               110, 116, 115, 32, 102, 111, 114, 32, 39, 107, 101, 121, 115,
               39, 32, 99, 111, 109, 109, 97, 110, 100>>
      [] s = "ERR pattern is not a BulkString" ->
             <<69, 82, 82, 32, 112, 97, 116, 116, 101, 114, 110, 32, 105,
               115, 32, 110, 111, 116, 32, 97, 32, 66, 117, 108, 107, 83,
               116, 114, 105, 110, 103>>
      [] s = "ERR only '*' pattern is supported" ->
             <<69, 82, 82, 32, 111, 110, 108, 121, 32, 39, 42, 39, 32, 112,
               97, 116, 116, 101, 114, 110, 32, 105, 115, 32, 115, 117, 112,
               112, 111, 114, 116, 101, 100>>
      [] s = "ERR wrong number of arguments for 'mset' command" ->
             <<69, 82, 82, 32, 119, 114, 111, 110, 103, 32, 110, 117, 109,
               98, 101, 114, 32, 111, 102, 32, 97, 114, 103, 117, 109, 101,
               110, 116, 115, 32, 102, 111, 114, 32, 39, 109, 115, 101, 116,
               39, 32, 99, 111, 109, 109, 97, 110, 100>>
      [] s = "ERR wrong number of args for 'mget" ->
             <<69, 82, 82, 32, 119, 114, 111, 110, 103, 32, 110, 117, 109,
               98, 101, 114, 32, 111, 102, 32, 97, 114, 103, 115, 32, 102,
               111, 114, 32, 39, 109, 103, 101, 116>>
      [] s = "ERR wrong number of arguments for 'strlen' command" ->
             <<69, 82, 82, 32, 119, 114, 111, 110, 103, 32, 110, 117, 109,
               98, 101, 114, 32, 111, 102, 32, 97, 114, 103, 117, 109, 101,
               110, 116, 115, 32, 102, 111, 114, 32, 39, 115, 116, 114, 108,
               101, 110, 39, 32, 99, 111, 109, 109, 97, 110, 100>>
      [] s = "ERR wrong number of arguments for 'getset' command" ->
             <<69, 82, 82, 32, 119, 114, 111, 110, 103, 32, 110, 117, 109,
               98, 101, 114, 32, 111, 102, 32, 97, 114, 103, 117, 109, 101,
               110, 116, 115, 32, 102, 111, 114, 32, 39, 103, 101, 116, 115,
               101, 116, 39, 32, 99, 111, 109, 109, 97, 110, 100>>
      [] s = "ERR value is not a BulkString" ->
             <<69, 82, 82, 32, 118, 97, 108, 117, 101, 32, 105, 115, 32, 110,
               111, 116, 32, 97, 32, 66, 117, 108, 107, 83, 116, 114, 105,
               110, 103>>
      [] s = "ERR command must be an array" ->
             <<69, 82, 82, 32, 99, 111, 109, 109, 97, 110, 100, 32, 109, 117,
               115, 116, 32, 98, 101, 32, 97, 110, 32, 97, 114, 114, 97, 121>>
      [] s = "ERR empty command" ->
             <<69, 82, 82, 32, 101, 109, 112, 116, 121, 32, 99, 111, 109,
               109, 97, 110, 100>>
      [] s = "ERR invalid command format" ->
             <<69, 82, 82, 32, 105, 110, 118, 97, 108, 105, 100, 32, 99, 111,
               109, 109, 97, 110, 100, 32, 102, 111, 114, 109, 97, 116>>
      [] s = "ERR unknown command '" ->
             <<69, 82, 82, 32, 117, 110, 107, 110, 111, 119, 110, 32, 99,
               111, 109, 109, 97, 110, 100, 32, 39>>
      [] s = "'" ->
             <<39>>
      [] s = "ERR wrong number of arguments for 'append' " ->
             <<69, 82, 82, 32, 119, 114, 111, 110, 103, 32, 110, 117, 109,
               98, 101, 114, 32, 111, 102, 32, 97, 114, 103, 117, 109, 101,
               110, 116, 115, 32, 102, 111, 114, 32, 39, 97, 112, 112, 101,
               110, 100, 39, 32>>
      [] s = "" -> <<>>

\* char::encode_utf8 for the code points the model holds: ASCII, and U+FFFD
\* (the replacement character of from_utf8_lossy), which takes three bytes.
encode_utf8(cp) == IF cp = 65533 THEN <<239, 191, 189>> ELSE <<cp>>
RECURSIVE str_bytes(_)
str_bytes(cps) ==
    IF Len(cps) = 0 THEN <<>> ELSE encode_utf8(Head(cps)) \o str_bytes(Tail(cps))

\* String::as_bytes of the text of a SimpleString / Error frame, given as
\* segments: <<lit>>, <<"", text off the wire>>, or <<lit, name, lit>>.
as_bytes(text) ==
    IF Len(text) = 1 THEN literal_bytes(text[1])
    ELSE IF Len(text) = 2 THEN str_bytes(text[2])
    ELSE literal_bytes(text[1]) \o str_bytes(text[2]) \o literal_bytes(text[3])

\* --------------------------------------------------------- handle_increment
\* env.now is the reading of Instant::now() inside the handler.
handle_increment(args, db, poisoned, env, amount) ==
    IF Len(args) # 2 THEN Ret(Error("ERR wrong number of arguments"), db, poisoned)
    ELSE IF ~IsBulk(args[2]) THEN Ret(Error("ERR key is not a BulkString"), db, poisoned)
    ELSE IF poisoned THEN Panic(db)
    ELSE
      LET key == args[2].v
          \* entry(key).or_insert_with(|| RedisValue { data: "0", expires_at: None })
          d1 == IF contains_key(db, key) THEN db
                ELSE insert(db, key, RedisValue(<<48>>, None))
          d2 == IF is_expired(d1[key], env.now)
                THEN insert(d1, key, RedisValue(<<48>>, None))
                ELSE d1
          data == d2[key].data
          cur == parse_i64(data)
          new_val == saturating_add(cur.val, amount)
      IN  IF ~from_utf8_ok(data)
          THEN Ret(Error("ERR value is not valid UTF-8"), d2, poisoned)
          ELSE IF ~cur.ok
          THEN Ret(Error("ERR value is not an integer"), d2, poisoned)
          ELSE Ret(Integer(new_val),
                   insert(d2, key, RedisValue(to_string(new_val), d2[key].expires_at)),
                   poisoned)

\* ------------------------------------------------------ handle_command arms
arm_PING(args, db, poisoned, env) ==
    IF Len(args) = 1 THEN Ret(SimpleString("PONG"), db, poisoned)
    ELSE IF Len(args) = 2 THEN Ret(args[2], db, poisoned)
    ELSE Ret(Error("ERR wrong number of arguments for 'ping' command"), db, poisoned)

arm_ECHO(args, db, poisoned, env) ==
    IF Len(args) = 2 THEN Ret(args[2], db, poisoned)
    ELSE Ret(Error("ERR wrong number of arguments for 'echo' command"), db, poisoned)

arm_COMMAND(args, db, poisoned, env) == Ret(Array(<<>>), db, poisoned)

\* SET writing a value with no expiry, as MSET does.
arm_SET_fresh(args, db, poisoned, env) ==
    IF Len(args) # 3
    THEN Ret(Error("ERR wrong number of argument for 'set' command"), db, poisoned)
    ELSE IF ~IsBulk(args[2]) THEN Ret(Error("ERR key is not a BulkString"), db, poisoned)
    ELSE IF ~IsBulk(args[3]) THEN Ret(Error("ERR value is not BulkString"), db, poisoned)
    ELSE IF poisoned THEN Panic(db)
    ELSE Ret(SimpleString("OK"), insert(db, args[2].v, RedisValue(args[3].v, None)), poisoned)

\* SET: the new value takes the expires_at of whatever entry the map holds
\* under the key (db_guard.get(key).and_then(|val| val.expires_at)).
arm_SET(args, db, poisoned, env) ==
    IF Len(args) # 3
    THEN Ret(Error("ERR wrong number of argument for 'set' command"), db, poisoned)
    ELSE IF ~IsBulk(args[2]) THEN Ret(Error("ERR key is not a BulkString"), db, poisoned)
    ELSE IF ~IsBulk(args[3]) THEN Ret(Error("ERR value is not BulkString"), db, poisoned)
    ELSE IF poisoned THEN Panic(db)
    ELSE
      LET key == args[2].v
          new_val == RedisValue(args[3].v,
                                IF contains_key(db, key) THEN db[key].expires_at ELSE None)
      IN  Ret(SimpleString("OK"), insert(db, key, new_val), poisoned)

arm_GET(args, db, poisoned, env) ==
    IF Len(args) # 2
    THEN Ret(Error("ERR wrong number of argument for 'set' command"), db, poisoned)
    ELSE IF ~IsBulk(args[2]) THEN Ret(Error("ERR key is not a BulkString"), db, poisoned)
    ELSE IF poisoned THEN Panic(db)
    ELSE
      LET key == args[2].v
      IN  IF contains_key(db, key)
          THEN IF is_expired(db[key], env.now)
               THEN Ret(Null, remove(db, key), poisoned)
               ELSE Ret(BulkString(db[key].data), db, poisoned)
          ELSE Ret(Null, db, poisoned)

\* DEL loop: remove(s).is_some() counts every entry the map held, in order.
RECURSIVE del_loop(_, _, _, _)
del_loop(args, i, m, deleted_count) ==
    IF i > Len(args) THEN [db |-> m, count |-> deleted_count]
    ELSE IF IsBulk(args[i]) /\ contains_key(m, args[i].v)
         THEN del_loop(args, i + 1, remove(m, args[i].v), deleted_count + 1)
         ELSE del_loop(args, i + 1, m, deleted_count)

arm_DEL(args, db, poisoned, env) ==
    IF Len(args) < 2
    THEN Ret(Error("DEL must have atleast one key to be deleted"), db, poisoned)
    ELSE IF poisoned THEN Panic(db)
    ELSE LET r == del_loop(args, 2, db, 0)
         IN  Ret(Integer(r.count), r.db, poisoned)

\* EXISTS loop: contains_key on an immutable guard, one count per argument.
RECURSIVE exists_loop(_, _, _, _)
exists_loop(args, i, m, exists_count) ==
    IF i > Len(args) THEN exists_count
    ELSE IF IsBulk(args[i]) /\ contains_key(m, args[i].v)
         THEN exists_loop(args, i + 1, m, exists_count + 1)
         ELSE exists_loop(args, i + 1, m, exists_count)

arm_EXISTS(args, db, poisoned, env) ==
    IF Len(args) < 2
    THEN Ret(Error("EXISTS must have atleast one key to be checked"), db, poisoned)
    ELSE IF poisoned THEN Panic(db)
    ELSE Ret(Integer(exists_loop(args, 2, db, 0)), db, poisoned)

arm_EXPIRE(args, db, poisoned, env) ==
    IF Len(args) # 3
    THEN Ret(Error("ERR wrong number of arguments for 'expire' command"), db, poisoned)
    ELSE IF ~IsBulk(args[2]) THEN Ret(Error("ERR key is not a BulkString"), db, poisoned)
    ELSE IF ~IsBulk(args[3]) THEN Ret(Error("ERR expiry is not a BulkString"), db, poisoned)
    ELSE IF ~from_utf8_ok(args[3].v)
    THEN Ret(Error("ERR expiry is not valid UTF-8"), db, poisoned)
    ELSE IF ~parse_i64(args[3].v).ok
    THEN Ret(Error("ERR expiry is not a valid integer"), db, poisoned)
    ELSE IF poisoned THEN Panic(db)
    ELSE
      LET key == args[2].v
          seconds == parse_i64(args[3].v).val
          deadline == instant_add(env.now, seconds)
      IN  IF contains_key(db, key)
          THEN IF seconds <= 0
               THEN Ret(Integer(1), remove(db, key), poisoned)
               ELSE IF ~deadline.ok THEN Panic(db)
               ELSE Ret(Integer(1),
                        insert(db, key, RedisValue(db[key].data, Some(deadline.at))),
                        poisoned)
          ELSE Ret(Integer(0), db, poisoned)

\* TTL reads the clock twice: env.now in is_expired, env.now2 >= env.now in
\* saturating_duration_since.
arm_TTL(args, db, poisoned, env) ==
    IF Len(args) # 2
    THEN Ret(Error("ERR wrong number of arguments for 'ttl' command"), db, poisoned)
    ELSE IF ~IsBulk(args[2]) THEN Ret(Error("ERR key is not a BulkString"), db, poisoned)
    ELSE IF poisoned THEN Panic(db)
    ELSE
      LET key == args[2].v
      IN  IF contains_key(db, key)
          THEN IF is_expired(db[key], env.now)
               THEN Ret(Integer(0 - 2), remove(db, key), poisoned)
               ELSE IF db[key].expires_at # None
                    THEN Ret(Integer(remaining_secs(db[key].expires_at[1], env.now2)),
                             db, poisoned)
                    ELSE Ret(Integer(0 - 1), db, poisoned)
          ELSE Ret(Integer(0 - 2), db, poisoned)

\* KEYS: env.order is the order in which HashMap::iter yields the keys (any
\* order is possible); expired entries are collected and removed afterwards.
arm_KEYS(args, db, poisoned, env) ==
    IF Len(args) # 2
    THEN Ret(Error("ERR wrong number of arguments for 'keys' command"), db, poisoned)
    ELSE IF ~IsBulk(args[2]) THEN Ret(Error("ERR pattern is not a BulkString"), db, poisoned)
    ELSE IF args[2].v # <<42>>
    THEN Ret(Error("ERR only '*' pattern is supported"), db, poisoned)
    ELSE IF poisoned THEN Panic(db)
    ELSE
      LET iter == SelectSeq(env.order, LAMBDA k : contains_key(db, k))
          live == SelectSeq(iter, LAMBDA k : ~is_expired(db[k], env.now))
          valid_keys == [i \in 1..Len(live) |-> BulkString(live[i])]
          keys_to_evict == {k \in DOMAIN db : is_expired(db[k], env.now)}
      IN  Ret(Array(valid_keys), [k \in (DOMAIN db) \ keys_to_evict |-> db[k]], poisoned)

\* An MSET loop that leaves a key it has already met as it is.
RECURSIVE mset_loop_keep(_, _, _)
mset_loop_keep(args, i, m) ==
    IF i + 1 > Len(args) THEN m
    ELSE IF IsBulk(args[i]) /\ IsBulk(args[i + 1]) /\ ~contains_key(m, args[i].v)
         THEN mset_loop_keep(args, i + 2,
                             insert(m, args[i].v, RedisValue(args[i + 1].v, None)))
         ELSE mset_loop_keep(args, i + 2, m)

\* MSET loop over args[1..].chunks_exact(2): a pair is written only when both
\* frames are BulkStrings; other pairs are passed over.
RECURSIVE mset_loop(_, _, _)
mset_loop(args, i, m) ==
    IF i + 1 > Len(args) THEN m
    ELSE IF IsBulk(args[i]) /\ IsBulk(args[i + 1])
         THEN mset_loop(args, i + 2, insert(m, args[i].v, RedisValue(args[i + 1].v, None)))
         ELSE mset_loop(args, i + 2, m)

arm_MSET(args, db, poisoned, env) ==
    IF Len(args) < 3 \/ Len(args) % 2 = 0
    THEN Ret(Error("ERR wrong number of arguments for 'mset' command"), db, poisoned)
    ELSE IF poisoned THEN Panic(db)
    ELSE Ret(SimpleString("OK"), mset_loop(args, 2, db), poisoned)

\* MGET: one result per argument; the map is read unchanged during the loop
\* and the expired keys are removed after it.
mget_result(key_frame, db, now) ==
    IF IsBulk(key_frame)
    THEN IF contains_key(db, key_frame.v)
         THEN IF is_expired(db[key_frame.v], now) THEN Null
              ELSE BulkString(db[key_frame.v].data)
         ELSE Null
    ELSE Null

arm_MGET(args, db, poisoned, env) ==
    IF Len(args) < 2 THEN Ret(Error("ERR wrong number of args for 'mget"), db, poisoned)
    ELSE IF poisoned THEN Panic(db)
    ELSE
      LET results == [i \in 1..(Len(args) - 1) |-> mget_result(args[i + 1], db, env.now)]
          keys_to_evict == {args[i].v : i \in {j \in 2..Len(args) :
                               /\ IsBulk(args[j])
                               /\ contains_key(db, args[j].v)
                               /\ is_expired(db[args[j].v], env.now)}}
      IN  Ret(Array(results), [k \in (DOMAIN db) \ keys_to_evict |-> db[k]], poisoned)

\* The first "STRLEN" arm of the match (the one a STRLEN request reaches).
arm_STRLEN(args, db, poisoned, env) ==
    IF Len(args) # 2
    THEN Ret(Error("ERR wrong number of arguments for 'strlen' command"), db, poisoned)
    ELSE IF ~IsBulk(args[2]) THEN Ret(Error("ERR key is not a BulkString"), db, poisoned)
    ELSE IF poisoned THEN Panic(db)
    ELSE
      LET key == args[2].v
      IN  IF contains_key(db, key)
          THEN IF is_expired(db[key], env.now)
               THEN Ret(Integer(0), remove(db, key), poisoned)
               ELSE Ret(Integer(Len(db[key].data)), db, poisoned)
          ELSE Ret(Integer(0), db, poisoned)

\* The second "STRLEN" arm of the match, which holds the APPEND code.  No
\* request reaches it: the first "STRLEN" arm matches the same name.
arm_STRLEN_second(args, db, poisoned, env) ==
    IF Len(args) # 3
    THEN Ret(Error("ERR wrong number of arguments for 'append' "), db, poisoned)
    ELSE IF ~IsBulk(args[2]) THEN Ret(Error("ERR key is not a BulkString"), db, poisoned)
    ELSE IF ~IsBulk(args[3]) THEN Ret(Error("ERR value is not a BulkString"), db, poisoned)
    ELSE IF poisoned THEN Panic(db)
    ELSE
      LET key == args[2].v
          d1 == IF contains_key(db, key) THEN db ELSE insert(db, key, RedisValue(<<>>, None))
          d2 == IF is_expired(d1[key], env.now)
                THEN insert(d1, key, RedisValue(<<>>, None))
                ELSE d1
          new_data_vec == d2[key].data \o args[3].v
      IN  Ret(Integer(Len(new_data_vec)),
              insert(d2, key, RedisValue(new_data_vec, d2[key].expires_at)),
              poisoned)

\* GETSET keeping the expiry of the entry it replaces, as SET does.
arm_GETSET_keep(args, db, poisoned, env) ==
    IF Len(args) # 3
    THEN Ret(Error("ERR wrong number of arguments for 'getset' command"), db, poisoned)
    ELSE IF ~IsBulk(args[2]) THEN Ret(Error("ERR key is not a BulkString"), db, poisoned)
    ELSE IF ~IsBulk(args[3]) THEN Ret(Error("ERR value is not a BulkString"), db, poisoned)
    ELSE IF poisoned THEN Panic(db)
    ELSE
      LET key == args[2].v
          m == insert(db, key, RedisValue(args[3].v,
                   IF contains_key(db, key) THEN db[key].expires_at ELSE None))
      IN  IF contains_key(db, key)
          THEN IF is_expired(db[key], env.now)
               THEN Ret(Null, m, poisoned)
               ELSE Ret(BulkString(db[key].data), m, poisoned)
          ELSE Ret(Null, m, poisoned)

\* GETSET: insert returns the entry the map held; its expiry is tested after.
arm_GETSET(args, db, poisoned, env) ==
    IF Len(args) # 3
    THEN Ret(Error("ERR wrong number of arguments for 'getset' command"), db, poisoned)
    ELSE IF ~IsBulk(args[2]) THEN Ret(Error("ERR key is not a BulkString"), db, poisoned)
    ELSE IF ~IsBulk(args[3]) THEN Ret(Error("ERR value is not a BulkString"), db, poisoned)
    ELSE IF poisoned THEN Panic(db)
    ELSE
      LET key == args[2].v
          m == insert(db, key, RedisValue(args[3].v, None))
      IN  IF contains_key(db, key)
          THEN IF is_expired(db[key], env.now)
               THEN Ret(Null, m, poisoned)
               ELSE Ret(BulkString(db[key].data), m, poisoned)
          ELSE Ret(Null, m, poisoned)

\* ----------------------------------------------------------- handle_command
\* The name of the command: a BulkString goes through from_utf8_lossy, a
\* SimpleString (text off the wire, <<"", bytes>>) is taken as it is.
command_name(f) ==
    IF f.t = "BulkString" THEN to_uppercase(from_utf8_lossy(f.v))
    ELSE to_uppercase(f.v[2])

\* The match on command_name: the first arm whose literal equals the name is
\* taken, so the second "STRLEN" arm (the APPEND code) is never reached and
\* an APPEND request falls through to the unknown-command arm.
dispatch(name, args, db, poisoned, env) ==
    CASE name = PING    -> arm_PING(args, db, poisoned, env)
      [] name = ECHO    -> arm_ECHO(args, db, poisoned, env)
      [] name = COMMAND -> arm_COMMAND(args, db, poisoned, env)
      [] name = SET     -> arm_SET(args, db, poisoned, env)
      [] name = GET     -> arm_GET(args, db, poisoned, env)
      [] name = DEL     -> arm_DEL(args, db, poisoned, env)
      [] name = EXISTS  -> arm_EXISTS(args, db, poisoned, env)
      [] name = EXPIRE  -> arm_EXPIRE(args, db, poisoned, env)
      [] name = TTL     -> arm_TTL(args, db, poisoned, env)
      [] name = INCR    -> handle_increment(args, db, poisoned, env, 1)
      [] name = DECR    -> handle_increment(args, db, poisoned, env, 0 - 1)
      [] name = KEYS    -> arm_KEYS(args, db, poisoned, env)
      [] name = MSET    -> arm_MSET(args, db, poisoned, env)
      [] name = MGET    -> arm_MGET(args, db, poisoned, env)
      [] name = STRLEN  -> arm_STRLEN(args, db, poisoned, env)
      [] name = GETSET  -> arm_GETSET(args, db, poisoned, env)
      [] OTHER -> Ret([t |-> "Error", v |-> <<"ERR unknown command '", name, "'">>],
                      db, poisoned)

handle_command(frame, db, poisoned, env) ==
    IF frame.t # "Array" THEN Ret(Error("ERR command must be an array"), db, poisoned)
    ELSE IF Len(frame.v) = 0 THEN Ret(Error("ERR empty command"), db, poisoned)
    ELSE IF frame.v[1].t \notin {"BulkString", "SimpleString"}
    THEN Ret(Error("ERR invalid command format"), db, poisoned)
    ELSE dispatch(command_name(frame.v[1]), frame.v, db, poisoned, env)

\* ------------------------------------------------------------ wire format
CRLF == <<13, 10>>

\* serialize_frame: the bytes the write_all calls put on the stream, in order.
RECURSIVE serialize_frame(_)
RECURSIVE serialize_all(_)
serialize_all(frames) ==
    IF Len(frames) = 0 THEN <<>>
    ELSE serialize_frame(Head(frames)) \o serialize_all(Tail(frames))
serialize_frame(frame) ==
    CASE frame.t = "SimpleString" -> <<43>> \o as_bytes(frame.v) \o CRLF
      [] frame.t = "Error" -> <<45>> \o as_bytes(frame.v) \o CRLF
      [] frame.t = "Integer" -> <<58>> \o to_string(frame.v) \o CRLF
      [] frame.t = "BulkString" ->
             <<36>> \o to_string(Len(frame.v)) \o CRLF \o frame.v \o CRLF
      [] frame.t = "Array" ->
             <<42>> \o to_string(Len(frame.v)) \o CRLF \o serialize_all(frame.v)
      [] frame.t = "Null" -> <<36, 45, 49>> \o CRLF

\* str::parse::<i64> of a length or an integer read off the wire.  The values
\* the model puts on the wire stay far from the 64-bit limits, so the range
\* test of the parse is left out here; the syntax is that of parse_i64.
RECURSIVE digits_value(_, _, _)
digits_value(bytes, i, acc) ==
    IF i > Len(bytes) THEN [ok |-> TRUE, val |-> acc]
    ELSE IF ~IsDigit(bytes[i]) THEN [ok |-> FALSE, val |-> 0]
    ELSE digits_value(bytes, i + 1, acc * 10 + (bytes[i] - 48))
parse_i64_wire(bytes) ==
    IF Len(bytes) = 0 THEN [ok |-> FALSE, val |-> 0]
    ELSE IF bytes[1] = 45 \/ bytes[1] = 43
         THEN IF Len(bytes) = 1 THEN [ok |-> FALSE, val |-> 0]
              ELSE LET r == digits_value(bytes, 2, 0)
                   IN  [ok |-> r.ok, val |-> IF bytes[1] = 45 THEN 0 - r.val ELSE r.val]
         ELSE digits_value(bytes, 1, 0)

\* Outcomes of a parse: "ok" with the frame and the bytes left in the reader;
\* "err" (an io::Error); "more" (the read is pending: the bytes so far are no
\* whole frame and the peer has not closed); "panic" (capacity overflow).
POk(frame, rest) == [st |-> "ok", frame |-> frame, rest |-> rest]
PErr == [st |-> "err", frame |-> Null, rest |-> <<>>]
PMore == [st |-> "more", frame |-> Null, rest |-> <<>>]
PPanic == [st |-> "panic", frame |-> Null, rest |-> <<>>]

\* Position of the first LF in buf, 0 if there is none.
RECURSIVE find_lf(_, _)
find_lf(buf, i) ==
    IF i > Len(buf) THEN 0 ELSE IF buf[i] = 10 THEN i ELSE find_lf(buf, i + 1)

\* String::from_utf8 of a line off the wire.  Over the bytes the model puts on
\* a wire (ASCII, 0xFF and the three bytes EF BF BD of U+FFFD) the valid
\* sequences are the ASCII bytes and EF BF BD; `cps` holds the code points.
RECURSIVE from_utf8(_, _, _)
from_utf8(bytes, i, cps) ==
    IF i > Len(bytes) THEN [ok |-> TRUE, cps |-> cps]
    ELSE IF bytes[i] < 128 THEN from_utf8(bytes, i + 1, Append(cps, bytes[i]))
    ELSE IF i + 2 <= Len(bytes) /\ SubSeq(bytes, i, i + 2) = <<239, 191, 189>>
         THEN from_utf8(bytes, i + 3, Append(cps, 65533))
    ELSE [ok |-> FALSE, cps |-> <<>>]

\* The one element of a singleton set.  { e(x) : x \in {v} } stands for
\* "let x be v in e(x)", with v computed once.
The(S) == CHOOSE y \in S : TRUE

\* read_line_as_string: read_until(b'\n') returns the bytes up to and with the
\* LF, or at end of stream whatever bytes are left; the line must be two bytes
\* or more with CR as its last but one, and the text before it valid UTF-8.
\* `frame` holds the text here.
read_line_as_string(buf, eof) ==
    The({ The({ IF p = 0 /\ ~eof THEN PMore
                ELSE IF len < 2 THEN PErr
                ELSE IF buf[len - 1] # 13 THEN PErr
                ELSE The({ IF ~s.ok THEN PErr
                           ELSE POk(s.cps, SubSeq(buf, len + 1, Len(buf)))
                           : s \in {from_utf8(SubSeq(buf, 1, len - 2), 1, <<>>)} })
                : len \in {IF p > 0 THEN p ELSE Len(buf)} })
          : p \in {find_lf(buf, 1)} })

\* parse_bulk_string after the '$'
parse_bulk_string(buf, eof) ==
    The({ IF line.st # "ok" THEN line
          ELSE The({ IF ~length.ok THEN PErr
                     ELSE IF length.val = 0 - 1 THEN POk(Null, line.rest)
                     \* vec![0; length as usize] with a negative length: capacity
                     \* overflow
                     ELSE IF length.val < 0 THEN PPanic
                     ELSE IF Len(line.rest) < length.val + 2
                          THEN IF eof THEN PErr ELSE PMore
                     ELSE IF SubSeq(line.rest, length.val + 1, length.val + 2) # CRLF
                          THEN PErr
                     ELSE POk(BulkString(SubSeq(line.rest, 1, length.val)),
                              SubSeq(line.rest, length.val + 3, Len(line.rest)))
                     : length \in {parse_i64_wire(line.frame)} })
          : line \in {read_line_as_string(buf, eof)} })

RECURSIVE parse_frame(_, _)
RECURSIVE parse_elements(_, _, _, _)
\* The loop of parse_array: n more elements to read.
parse_elements(buf, eof, n, elements) ==
    IF n = 0 THEN POk(Array(elements), buf)
    ELSE The({ IF e.st # "ok" THEN e
               ELSE parse_elements(e.rest, eof, n - 1, Append(elements, e.frame))
               : e \in {parse_frame(buf, eof)} })

\* parse_array after the '*'
parse_array(buf, eof) ==
    The({ IF line.st # "ok" THEN line
          ELSE The({ IF ~length.ok THEN PErr
                     ELSE IF length.val = 0 - 1 THEN POk(Null, line.rest)
                     \* Vec::with_capacity(length as usize) with a negative length
                     ELSE IF length.val < 0 THEN PPanic
                     ELSE parse_elements(line.rest, eof, length.val, <<>>)
                     : length \in {parse_i64_wire(line.frame)} })
          : line \in {read_line_as_string(buf, eof)} })

\* The line after the prefix of a SimpleString, an Error or an Integer.
parse_line(prefix, buf, eof) ==
    The({ IF line.st # "ok" THEN line
          ELSE IF prefix = 43
               THEN POk([t |-> "SimpleString", v |-> <<"", line.frame>>], line.rest)
          ELSE IF prefix = 45
               THEN POk([t |-> "Error", v |-> <<"", line.frame>>], line.rest)
          ELSE The({ IF ~val.ok THEN PErr ELSE POk(Integer(val.val), line.rest)
                     : val \in {parse_i64_wire(line.frame)} })
          : line \in {read_line_as_string(buf, eof)} })

\* parse_frame on the bytes the reader holds; eof: the peer has closed.
parse_frame(buf, eof) ==
    IF Len(buf) = 0 THEN (IF eof THEN PErr ELSE PMore)
    ELSE CASE buf[1] \in {43, 45, 58} -> parse_line(buf[1], Tail(buf), eof)
           [] buf[1] = 36 -> parse_bulk_string(Tail(buf), eof)
           [] buf[1] = 42 -> parse_array(Tail(buf), eof)
           [] OTHER -> PErr

\* ------------------------------------------------------------ state machine
VARIABLES
    db,        \* the HashMap behind the Mutex
    poisoned,  \* the Mutex is poisoned (a holder of the guard panicked)
    now,       \* the last reading of the monotonic clock, in ticks
    req,       \* the frame handle_connection parsed last (Idle: none pending)
    reply,     \* what handle_command returned for it (NoReply: it panicked)
    db0,       \* the map as that call found it
    p0,        \* whether that call found the Mutex poisoned
    t0,        \* the clock reading that call made first
    \* -- the connection tasks, one per accepted socket
    pc,        \* where each task stands in the loop of handle_connection
    inbuf,     \* bytes each client has sent that parse_frame has not consumed
    eof,       \* the client has closed its side
    sent,      \* the chunks each client has sent, in order
    cframe,       \* the frame parse_frame returned last
    nreq,      \* how many frames parse_frame has returned to the task
    local,     \* the outcome handle_command has computed under the guard
    resp,      \* the response handle_command returned
    out,       \* bytes each task has written to its client
    exit,      \* why the task ended ("" while it runs)
    mutex      \* the task that holds the MutexGuard, 0 if none

\* The variables of the one-connection view and those of the tasks.
hist == <<req, reply, db0, p0, t0>>
cvars == <<pc, inbuf, eof, sent, cframe, nreq, local, resp, out, exit, mutex>>
vars == <<db, poisoned, now, req, reply, db0, p0, t0, cvars>>

\* Connections accepted, and chunks a client sends at most.
NConns == 2
MaxReq == 2
Conns == 1..NConns

Idle == [t |-> "Idle", v |-> <<>>]

\* Requests the clients send.  Key "a" receives every command with every
\* argument below; key "b" receives values "x" only and no INCR/DECR, which
\* keeps the map's second entry small.  Argument lists of DEL, EXISTS and MGET
\* hold up to as many frames as there are keys.
KA == BulkString(<<97>>)
KB == BulkString(<<98>>)
NotBulk == Integer(1)
Keys == {KA.v, KB.v}
KeyArgs == {KA, KB, NotBulk}
\* "x" and "+01"
VX == BulkString(<<120>>)
VP == BulkString(<<43, 48, 49>>)
\* one byte 0xFF: not valid UTF-8
VBad == BulkString(<<255>>)
\* "0", "-1", "1" and the largest i64
S0 == BulkString(<<48>>)
SNeg == BulkString(<<45, 49>>)
S1 == BulkString(<<49>>)
SMax == BulkString(to_string(I64_MAX))
KeyLists == UNION {[1..n -> KeyArgs] : n \in 1..Cardinality(Keys)}
Orders == {<<KA.v, KB.v>>, <<KB.v, KA.v>>}
AnyOrder == <<KA.v, KB.v>>

Request(name, args) == Array(<<BulkString(name)>> \o args)

\* A SimpleString frame as parse_frame builds it: text off the wire.
SimpleStringWire(bytes) == [t |-> "SimpleString", v |-> <<"", bytes>>]
\* "get", "Get", "append", "foo" and a name that is not valid UTF-8
get_lc == <<103, 101, 116>>
Get_mixed == <<71, 101, 116>>
append_lc == <<97, 112, 112, 101, 110, 100>>
foo_lc == <<102, 111, 111>>
bad_name == <<255>>
\* A name with CR LF inside: "A" CR LF "+B"
crlf_name == <<65, 13, 10, 43, 66>>
\* Frames that test the envelope of handle_command: not an Array, an empty
\* Array, a first element of the wrong type, names in other cases, names
\* outside the match.
EnvelopeFrames ==
    {VX, NotBulk, Null, SimpleStringWire(GET),
     Array(<<>>), Array(<<NotBulk>>), Array(<<Null>>),
     Request(get_lc, <<KA>>), Request(Get_mixed, <<KA>>),
     Array(<<SimpleStringWire(get_lc), KA>>), Array(<<SimpleStringWire(GET), KA>>),
     Request(foo_lc, <<>>), Request(bad_name, <<>>), Request(crlf_name, <<>>)}
\* Requests with the wrong number of arguments.
BadArityFrames ==
    {Request(n, <<>>) : n \in {ECHO, SET, GET, DEL, EXISTS, EXPIRE, TTL, INCR, DECR,
                                KEYS, MSET, MGET, STRLEN, GETSET}}
    \cup {Request(PING, <<VX, VX>>), Request(SET, <<KA>>), Request(GET, <<KA, KB>>),
          Request(MSET, <<KA, VX, KB>>)}

\* The tasks as tokio::spawn starts them: at the top of the loop, nothing
\* read, nothing written, the Mutex free.
TasksStart ==
    /\ pc = [c \in Conns |-> "parse"]
    /\ inbuf = [c \in Conns |-> <<>>]
    /\ eof = [c \in Conns |-> FALSE]
    /\ sent = [c \in Conns |-> <<>>]
    /\ cframe = [c \in Conns |-> Idle]
    /\ nreq = [c \in Conns |-> 0]
    /\ local = [c \in Conns |-> Ret(Idle, EmptyMap, FALSE)]
    /\ resp = [c \in Conns |-> Idle]
    /\ out = [c \in Conns |-> <<>>]
    /\ exit = [c \in Conns |-> ""]
    /\ mutex = 0

Init ==
    /\ db = EmptyMap
    /\ poisoned = FALSE
    /\ now = 0
    /\ req = Idle
    /\ reply = Idle
    /\ db0 = EmptyMap
    /\ p0 = FALSE
    /\ t0 = 0
    /\ TasksStart

\* handle_connection, one iteration up to the call of handle_command: the
\* frame parse_frame returned is dispatched with the clock readings and the
\* iteration order the call meets.  The previous reply has been written.
Exec(frame, now2, order) ==
    /\ req = Idle
    /\ LET r == handle_command(frame, db, poisoned,
                               [now |-> now, now2 |-> now2, order |-> order])
       IN  /\ db' = r.db
           /\ poisoned' = r.poisoned
           /\ reply' = r.reply
    /\ req' = frame
    /\ db0' = db
    /\ p0' = poisoned
    /\ t0' = now
    /\ now' = now2
    /\ UNCHANGED cvars

\* handle_connection, the rest of the iteration: serialize_frame writes the
\* response and the loop goes back to parse_frame.
WriteReply ==
    /\ req # Idle
    /\ reply # NoReply
    /\ req' = Idle
    /\ reply' = Idle
    /\ db0' = db
    /\ p0' = poisoned
    /\ t0' = now
    /\ UNCHANGED <<db, poisoned, now, cvars>>

\* The handler panicked: the connection's task ends without a reply, and main
\* goes on accepting connections.
TaskAborted ==
    /\ reply = NoReply
    /\ req' = Idle
    /\ reply' = Idle
    /\ db0' = db
    /\ p0' = poisoned
    /\ t0' = now
    /\ UNCHANGED <<db, poisoned, now, cvars>>

\* The clock advances (between two requests; an advance while a reply is
\* being written leaves the store in the same state as one right after it).
Tick ==
    /\ req = Idle
    /\ now < MaxTime
    /\ now' = now + 1
    /\ t0' = now + 1
    /\ UNCHANGED <<db, poisoned, req, reply, db0, p0, cvars>>

DoPING == \E args \in {<<>>, <<VX>>} : Exec(Request(PING, args), now, AnyOrder)
DoECHO == Exec(Request(ECHO, <<VX>>), now, AnyOrder)
DoCOMMAND == Exec(Request(COMMAND, <<>>), now, AnyOrder)
DoSET ==
    \E args \in {<<KA, VX>>, <<KA, VP>>, <<KA, VBad>>, <<KB, VX>>, <<NotBulk, VX>>,
                 <<KA, NotBulk>>} :
        Exec(Request(SET, args), now, AnyOrder)
DoGET == \E k \in KeyArgs : Exec(Request(GET, <<k>>), now, AnyOrder)
DoDEL == \E ks \in KeyLists : Exec(Request(DEL, ks), now, AnyOrder)
DoEXISTS == \E ks \in KeyLists : Exec(Request(EXISTS, ks), now, AnyOrder)
DoEXPIRE ==
    \E args \in {<<KA, S0>>, <<KA, SNeg>>, <<KA, S1>>, <<KA, SMax>>, <<KA, VX>>,
                 <<KA, NotBulk>>, <<KB, S0>>, <<KB, S1>>, <<NotBulk, S1>>} :
        Exec(Request(EXPIRE, args), now, AnyOrder)
DoTTL ==
    \E k \in KeyArgs, now2 \in {now, now + 1} :
        /\ now2 <= MaxTime
        /\ Exec(Request(TTL, <<k>>), now2, AnyOrder)
DoINCR == \E k \in {KA, NotBulk} : Exec(Request(INCR, <<k>>), now, AnyOrder)
DoDECR == \E k \in {KA, NotBulk} : Exec(Request(DECR, <<k>>), now, AnyOrder)
DoKEYS ==
    \E p \in {<<42>>, <<97>>}, o \in Orders :
        Exec(Request(KEYS, <<BulkString(p)>>), now, o)
DoMSET ==
    \E args \in {<<KA, VX>>, <<KB, VX>>, <<KA, VP>>, <<KA, VX, KB, VX>>,
                 <<KA, VX, KA, VP>>, <<KA, NotBulk>>, <<NotBulk, VX>>,
                 <<KA, VX, NotBulk, VX>>} :
        Exec(Request(MSET, args), now, AnyOrder)
DoMGET == \E ks \in KeyLists : Exec(Request(MGET, ks), now, AnyOrder)
DoSTRLEN == \E k \in KeyArgs : Exec(Request(STRLEN, <<k>>), now, AnyOrder)
DoGETSET ==
    \E args \in {<<KA, VX>>, <<KA, VP>>, <<KB, VX>>, <<NotBulk, VX>>, <<KA, NotBulk>>} :
        Exec(Request(GETSET, args), now, AnyOrder)
DoAPPEND ==
    \E name \in {APPEND, append_lc}, args \in {<<KA, VX>>, <<KA, NotBulk>>} :
        Exec(Request(name, args), now, AnyOrder)
DoEnvelope == \E frame \in EnvelopeFrames : Exec(frame, now, AnyOrder)
DoBadArity == \E frame \in BadArityFrames : Exec(frame, now, AnyOrder)

Next ==
    \/ Tick
    \/ WriteReply
    \/ TaskAborted
    \/ DoPING \/ DoECHO \/ DoCOMMAND
    \/ DoSET \/ DoGET \/ DoDEL \/ DoEXISTS \/ DoEXPIRE \/ DoTTL
    \/ DoINCR \/ DoDECR \/ DoKEYS \/ DoMSET \/ DoMGET \/ DoSTRLEN
    \/ DoGETSET \/ DoAPPEND \/ DoEnvelope \/ DoBadArity

Spec == Init /\ [][Next]_vars

\* ------------------------------------------------ tasks sharing the store
\* The same server seen as NConns tasks, each in the loop of handle_connection
\* with its own socket, all calling handle_command on the one Mutex.  A call
\* that locks the store takes three steps (lock, compute under the guard,
\* store and return), so that tasks interleave wherever threads can.

\* Requests of the clients, and bytes no parse accepts ("?" CR LF).
IncrA == Request(INCR, <<KA>>)
EchoX == Request(ECHO, <<VX>>)
ExpireMax == Request(EXPIRE, <<KA, SMax>>)
CommandErrorFrames ==
    {Request(GET, <<>>), Request(SET, <<NotBulk, VX>>), Request(foo_lc, <<>>),
     Request(KEYS, <<KA>>), Request(EXPIRE, <<KA, VX>>)}
Garbage == [t |-> "Garbage", v |-> <<63, 13, 10>>]
\* The first client sends any of them, the others INCR only.
ChunksOf(c) ==
    IF c = 1 THEN {IncrA, EchoX, ExpireMax, Garbage} \cup CommandErrorFrames
    ELSE {IncrA}
\* The bytes of a chunk on the wire.
chunk_bytes(chunk) == IF chunk.t = "Garbage" THEN chunk.v ELSE serialize_frame(chunk)

\* The clock reads 0 or MaxTime when the tasks start; it does not advance
\* while they run.
TasksInit ==
    /\ db = EmptyMap
    /\ poisoned = FALSE
    /\ now \in {0, MaxTime}
    /\ req = Idle
    /\ reply = Idle
    /\ db0 = EmptyMap
    /\ p0 = FALSE
    /\ t0 = 0
    /\ TasksStart

\* A client writes one more chunk to its socket.
ClientSend(c) ==
    /\ pc[c] # "closed"
    /\ ~eof[c]
    /\ Len(sent[c]) < MaxReq
    /\ \E chunk \in ChunksOf(c) :
           /\ sent' = [sent EXCEPT ![c] = Append(@, chunk)]
           /\ inbuf' = [inbuf EXCEPT ![c] = @ \o chunk_bytes(chunk)]
    /\ UNCHANGED <<db, poisoned, now, hist, pc, eof, cframe, nreq, local, resp, out, exit,
                   mutex>>

\* A client closes its side of the socket.
ClientClose(c) ==
    /\ pc[c] # "closed"
    /\ ~eof[c]
    /\ eof' = [eof EXCEPT ![c] = TRUE]
    /\ UNCHANGED <<db, poisoned, now, hist, pc, inbuf, sent, cframe, nreq, local, resp, out,
                   exit, mutex>>

\* A loop that goes on to the next frame after a parse error.
ParseFrame_resync(c) ==
    /\ pc[c] = "parse"
    /\ \E r \in {parse_frame(inbuf[c], eof[c])} :
           /\ r.st # "more"
           /\ IF r.st = "ok"
              THEN /\ cframe' = [cframe EXCEPT ![c] = r.frame]
                   /\ inbuf' = [inbuf EXCEPT ![c] = r.rest]
                   /\ nreq' = [nreq EXCEPT ![c] = @ + 1]
                   /\ pc' = [pc EXCEPT ![c] = "call"]
                   /\ exit' = exit
              ELSE /\ inbuf' = [inbuf EXCEPT ![c] = <<>>]
                   /\ exit' = [exit EXCEPT ![c] = IF Len(inbuf[c]) = 0 THEN "eof"
                                                  ELSE "framing"]
                   /\ UNCHANGED <<cframe, nreq, pc>>
    /\ UNCHANGED <<db, poisoned, now, hist, eof, sent, local, resp, out, mutex>>

\* handle_connection: parse_frame(&mut reader).await and the match on its
\* result.  Ok(frame) goes on to handle_command; Err(e) breaks the loop, be it
\* the end of the stream before a frame or a framing error; a panic of the
\* parser ends the task.
ParseFrame(c) ==
    /\ pc[c] = "parse"
    /\ \E r \in {parse_frame(inbuf[c], eof[c])} :
           /\ r.st # "more"
           /\ IF r.st = "ok"
              THEN /\ cframe' = [cframe EXCEPT ![c] = r.frame]
                   /\ inbuf' = [inbuf EXCEPT ![c] = r.rest]
                   /\ nreq' = [nreq EXCEPT ![c] = @ + 1]
                   /\ pc' = [pc EXCEPT ![c] = "call"]
                   /\ exit' = exit
              ELSE /\ pc' = [pc EXCEPT ![c] = "closed"]
                   /\ exit' = [exit EXCEPT ![c] =
                                  IF r.st = "panic" THEN "panic"
                                  ELSE IF Len(inbuf[c]) = 0 THEN "eof"
                                  ELSE "framing"]
                   /\ UNCHANGED <<cframe, inbuf, nreq>>
    /\ UNCHANGED <<db, poisoned, now, hist, eof, sent, local, resp, out, mutex>>

\* Whether handle_command on this frame comes to db.lock(): on a poisoned
\* Mutex exactly those calls panic.
reaches_lock(frame) ==
    handle_command(frame, EmptyMap, TRUE,
                   [now |-> 0, now2 |-> 0, order |-> AnyOrder]).panic

\* handle_command up to db.lock(): the envelope, arity and type tests return
\* their Error frame without the store.
CallNoLock(c) ==
    /\ pc[c] = "call"
    /\ ~reaches_lock(cframe[c])
    /\ resp' = [resp EXCEPT ![c] =
                   handle_command(cframe[c], db, poisoned,
                                  [now |-> now, now2 |-> now, order |-> AnyOrder]).reply]
    /\ pc' = [pc EXCEPT ![c] = "write"]
    /\ UNCHANGED <<db, poisoned, now, hist, inbuf, eof, sent, cframe, nreq, local, out, exit,
                   mutex>>

\* A lock that does not wait for the holder of the guard.
Lock_no_wait(c) ==
    /\ pc[c] = "call"
    /\ reaches_lock(cframe[c])
    /\ IF poisoned
       THEN /\ pc' = [pc EXCEPT ![c] = "closed"]
            /\ exit' = [exit EXCEPT ![c] = "panic"]
            /\ mutex' = mutex
       ELSE /\ pc' = [pc EXCEPT ![c] = "locked"]
            /\ mutex' = c
            /\ exit' = exit
    /\ UNCHANGED <<db, poisoned, now, hist, inbuf, eof, sent, cframe, nreq, local, resp, out>>

\* db.lock().unwrap(): the thread waits while another task holds the guard;
\* on a poisoned Mutex unwrap panics and the task ends.
Lock(c) ==
    /\ pc[c] = "call"
    /\ reaches_lock(cframe[c])
    /\ mutex = 0
    /\ IF poisoned
       THEN /\ pc' = [pc EXCEPT ![c] = "closed"]
            /\ exit' = [exit EXCEPT ![c] = "panic"]
            /\ mutex' = mutex
       ELSE /\ pc' = [pc EXCEPT ![c] = "locked"]
            /\ mutex' = c
            /\ exit' = exit
    /\ UNCHANGED <<db, poisoned, now, hist, inbuf, eof, sent, cframe, nreq, local, resp, out>>

\* Under the guard: the arm reads the map and computes what it will store and
\* reply.  A panic here unwinds through the guard: the Mutex is poisoned and
\* released, the task ends.
Compute(c) ==
    /\ pc[c] = "locked"
    /\ LET r == handle_command(cframe[c], db, FALSE,
                               [now |-> now, now2 |-> now, order |-> AnyOrder])
       IN  IF r.panic
           THEN /\ poisoned' = TRUE
                /\ mutex' = 0
                /\ pc' = [pc EXCEPT ![c] = "closed"]
                /\ exit' = [exit EXCEPT ![c] = "panic"]
                /\ local' = local
           ELSE /\ local' = [local EXCEPT ![c] = r]
                /\ pc' = [pc EXCEPT ![c] = "store"]
                /\ UNCHANGED <<poisoned, mutex, exit>>
    /\ UNCHANGED <<db, now, hist, inbuf, eof, sent, cframe, nreq, resp, out>>

\* Under the guard: the arm writes the map and returns; the guard is dropped.
Store(c) ==
    /\ pc[c] = "store"
    /\ db' = local[c].db
    /\ resp' = [resp EXCEPT ![c] = local[c].reply]
    /\ mutex' = 0
    /\ pc' = [pc EXCEPT ![c] = "write"]
    /\ UNCHANGED <<poisoned, now, hist, inbuf, eof, sent, cframe, nreq, local, out, exit>>

\* serialize_frame(&mut write_half, response) returned Ok: every byte of the
\* frame is written, and the loop goes back to parse_frame.
WriteOk(c) ==
    /\ pc[c] = "write"
    /\ out' = [out EXCEPT ![c] = @ \o serialize_frame(resp[c])]
    /\ pc' = [pc EXCEPT ![c] = "parse"]
    /\ UNCHANGED <<db, poisoned, now, hist, inbuf, eof, sent, cframe, nreq, local, resp, exit,
                   mutex>>

\* serialize_frame returned Err (the peer is gone): a write_all failed, either
\* the first one or one after the type byte; the loop breaks.
WriteErr(c) ==
    /\ pc[c] = "write"
    /\ \E n \in {0, 1} :
           out' = [out EXCEPT ![c] = @ \o SubSeq(serialize_frame(resp[c]), 1, n)]
    /\ pc' = [pc EXCEPT ![c] = "closed"]
    /\ exit' = [exit EXCEPT ![c] = "write"]
    /\ UNCHANGED <<db, poisoned, now, hist, inbuf, eof, sent, cframe, nreq, local, resp, mutex>>

TasksNext ==
    \E c \in Conns :
        \/ ClientSend(c)
        \/ ClientClose(c)
        \/ ParseFrame(c)
        \/ CallNoLock(c)
        \/ Lock(c)
        \/ Compute(c)
        \/ Store(c)
        \/ WriteOk(c)
        \/ WriteErr(c)

TasksSpec == TasksInit /\ [][TasksNext]_vars

\* ------------------------------------------------- the listener and fairness
\* main: the loop of listener.accept().await and tokio::spawn.  A client that
\* has connected waits in the backlog ("pending") until accept returns its
\* stream; the bytes it sends meanwhile wait in the socket.  The spawned task
\* starts at parse_frame.
Accept(c) ==
    /\ pc[c] = "pending"
    /\ pc' = [pc EXCEPT ![c] = "parse"]
    /\ UNCHANGED <<db, poisoned, now, hist, inbuf, eof, sent, cframe, nreq, local, resp, out,
                   exit, mutex>>

\* The first bytes of a request and no more: "*1" CR LF "$".
Stalled == [t |-> "Garbage", v |-> <<42, 49, 13, 10, 36>>]
\* What the clients send here: the first one the overflowing EXPIRE, a GET
\* without a key or a request it leaves unfinished; the others INCR.
LiveChunksOf(c) ==
    IF c = 1 THEN {ExpireMax, Request(GET, <<>>), Stalled} ELSE {IncrA}
LiveSend(c) ==
    /\ pc[c] # "closed"
    /\ ~eof[c]
    /\ Len(sent[c]) < MaxReq
    /\ \E chunk \in LiveChunksOf(c) :
           /\ sent' = [sent EXCEPT ![c] = Append(@, chunk)]
           /\ inbuf' = [inbuf EXCEPT ![c] = @ \o chunk_bytes(chunk)]
    /\ UNCHANGED <<db, poisoned, now, hist, pc, eof, cframe, nreq, local, resp, out, exit,
                   mutex>>

\* Every client has connected and none is accepted yet; the clock reads
\* MaxTime and does not advance.
LiveInit ==
    /\ db = EmptyMap
    /\ poisoned = FALSE
    /\ now = MaxTime
    /\ req = Idle
    /\ reply = Idle
    /\ db0 = EmptyMap
    /\ p0 = FALSE
    /\ t0 = 0
    /\ pc = [c \in Conns |-> "pending"]
    /\ inbuf = [c \in Conns |-> <<>>]
    /\ eof = [c \in Conns |-> FALSE]
    /\ sent = [c \in Conns |-> <<>>]
    /\ cframe = [c \in Conns |-> Idle]
    /\ nreq = [c \in Conns |-> 0]
    /\ local = [c \in Conns |-> Ret(Idle, EmptyMap, FALSE)]
    /\ resp = [c \in Conns |-> Idle]
    /\ out = [c \in Conns |-> <<>>]
    /\ exit = [c \in Conns |-> ""]
    /\ mutex = 0

\* One step of the task of connection c: whatever its place in the loop of
\* handle_connection allows.
Task(c) ==
    \/ ParseFrame(c)
    \/ CallNoLock(c)
    \/ Lock(c)
    \/ Compute(c)
    \/ Store(c)
    \/ WriteOk(c)
    \/ WriteErr(c)

LiveNext ==
    \E c \in Conns :
        \/ LiveSend(c)
        \/ ClientClose(c)
        \/ Accept(c)
        \/ Task(c)

\* The runtime polls every task that can make progress, and the accept loop
\* among them; a thread waiting for the Mutex gets it once it stays free.
\* Clients are under no obligation to send or to close.
LiveFairness ==
    \A c \in Conns : WF_vars(Accept(c)) /\ WF_vars(Task(c))

LiveSpec == LiveInit /\ [][LiveNext]_vars /\ LiveFairness


\* ------------------------------------------------- one reader, one writer
\* parse_frame and serialize_frame on one stream, as the loop of
\* handle_connection and the tests of parser.rs and serializer/mod.rs use
\* them: a writer puts frames (serialize_frame) or raw bytes on the stream of
\* connection 1, and one BufReader over that stream is handed to parse_frame
\* again and again.

\* Frames written to the stream at most.
MaxFrames == 2

ErrorWire(cps) == [t |-> "Error", v |-> <<"", cps>>]
\* Texts without CR or LF: "", "OK", "ERR x", and U+FFFD.
Texts == {<<>>, <<79, 75>>, <<69, 82, 82, 32, 120>>, <<65533>>}
\* Byte strings: empty, "x", CR LF, 0xFF, and bytes that read as a Null frame.
Payloads == {<<>>, <<120>>, <<13, 10>>, <<255>>, <<36, 45, 49, 13, 10>>}
\* An Array in an Array in an Array, with every kind of frame inside.
Nested ==
    Array(<<Array(<<SimpleStringWire(<<79, 75>>), Array(<<>>), Null>>),
            BulkString(<<13, 10>>), Integer(0 - 12), ErrorWire(<<69, 82, 82, 32, 120>>)>>)
CodecFrames ==
    {SimpleStringWire(t) : t \in Texts} \cup {ErrorWire(t) : t \in Texts}
    \cup {Integer(n) : n \in {I64_MIN, 0 - 12, 0 - 1, 0, 10, I64_MAX}}
    \cup {BulkString(b) : b \in Payloads}
    \cup {Null, Array(<<>>), Array(<<Null>>), Request(SET, <<KA, VX>>), Nested}

\* Raw bytes: frames that serialize_frame never writes ("*-1", ":+1"), and
\* input that is no frame: lengths below -1 ("$-2", "*-5", "$-10", and "$-2"
\* inside an Array), a bulk string longer than its length, a line that ends
\* with LF alone, an unknown prefix.
NullArrayBytes == <<42, 45, 49, 13, 10>>
PlusOneBytes == <<58, 43, 49, 13, 10>>
NegativeLengthInputs ==
    {<<36, 45, 50, 13, 10>>, <<42, 45, 53, 13, 10>>, <<36, 45, 49, 48, 13, 10>>,
     <<42, 49, 13, 10, 36, 45, 50, 13, 10>>}
MalformedInputs ==
    {<<36, 49, 13, 10, 97, 98, 13, 10>>, <<43, 79, 75, 10>>, <<63, 13, 10>>}
Raw(bytes) == [t |-> "Garbage", v |-> bytes]
RawInputs ==
    {Raw(b) : b \in {NullArrayBytes, PlusOneBytes} \cup NegativeLengthInputs
                     \cup MalformedInputs}

CodecInit ==
    /\ db = EmptyMap
    /\ poisoned = FALSE
    /\ now = 0
    /\ req = Idle
    /\ reply = Idle
    /\ db0 = EmptyMap
    /\ p0 = FALSE
    /\ t0 = 0
    /\ TasksStart

\* serialize_frame(&mut stream, frame): the bytes of the frame follow those
\* already written.
PutFrame ==
    /\ ~eof[1]
    /\ Len(sent[1]) < MaxFrames
    /\ \E f \in CodecFrames :
           /\ sent' = [sent EXCEPT ![1] = Append(@, f)]
           /\ inbuf' = [inbuf EXCEPT ![1] = @ \o serialize_frame(f)]
    /\ UNCHANGED <<db, poisoned, now, hist, pc, eof, cframe, nreq, local, resp, out, exit,
                   mutex>>

\* The peer writes bytes of its own.
PutRaw ==
    /\ ~eof[1]
    /\ Len(sent[1]) < MaxFrames
    /\ \E chunk \in RawInputs :
           /\ sent' = [sent EXCEPT ![1] = Append(@, chunk)]
           /\ inbuf' = [inbuf EXCEPT ![1] = @ \o chunk.v]
    /\ UNCHANGED <<db, poisoned, now, hist, pc, eof, cframe, nreq, local, resp, out, exit,
                   mutex>>

\* The stream ends.
EndOfStream ==
    /\ ~eof[1]
    /\ eof' = [eof EXCEPT ![1] = TRUE]
    /\ UNCHANGED <<db, poisoned, now, hist, pc, inbuf, sent, cframe, nreq, local, resp, out,
                   exit, mutex>>

\* A reader made anew for every call: the bytes it had buffered are gone.
ReadFrame_new_reader ==
    /\ pc[1] = "parse"
    /\ \E r \in {parse_frame(inbuf[1], eof[1])} :
           /\ r.st # "more"
           /\ IF r.st = "ok"
              THEN /\ cframe' = [cframe EXCEPT ![1] = r.frame]
                   /\ inbuf' = [inbuf EXCEPT ![1] = <<>>]
                   /\ nreq' = [nreq EXCEPT ![1] = @ + 1]
                   /\ UNCHANGED <<pc, exit>>
              ELSE /\ pc' = [pc EXCEPT ![1] = "closed"]
                   /\ exit' = [exit EXCEPT ![1] =
                                  IF r.st = "panic" THEN "panic"
                                  ELSE IF Len(inbuf[1]) = 0 THEN "eof"
                                  ELSE "framing"]
                   /\ UNCHANGED <<cframe, inbuf, nreq>>
    /\ UNCHANGED <<db, poisoned, now, hist, eof, sent, local, resp, out, mutex>>

\* parse_frame(&mut reader).await on the one reader: Ok(frame) leaves in the
\* reader the bytes after the frame, and the caller calls again; Err or a
\* panic ends the reading.
ReadFrame ==
    /\ pc[1] = "parse"
    /\ \E r \in {parse_frame(inbuf[1], eof[1])} :
           /\ r.st # "more"
           /\ IF r.st = "ok"
              THEN /\ cframe' = [cframe EXCEPT ![1] = r.frame]
                   /\ inbuf' = [inbuf EXCEPT ![1] = r.rest]
                   /\ nreq' = [nreq EXCEPT ![1] = @ + 1]
                   /\ UNCHANGED <<pc, exit>>
              ELSE /\ pc' = [pc EXCEPT ![1] = "closed"]
                   /\ exit' = [exit EXCEPT ![1] =
                                  IF r.st = "panic" THEN "panic"
                                  ELSE IF Len(inbuf[1]) = 0 THEN "eof"
                                  ELSE "framing"]
                   /\ UNCHANGED <<cframe, inbuf, nreq>>
    /\ UNCHANGED <<db, poisoned, now, hist, eof, sent, local, resp, out, mutex>>

CodecNext == PutFrame \/ PutRaw \/ EndOfStream \/ ReadFrame

CodecSpec == CodecInit /\ [][CodecNext]_vars

\* ------------------------------------------------------------------ claims
\* The last call of handle_command returned a reply (it did not panic).
Returned == req # Idle /\ reply # NoReply
\* The last call found the Mutex healthy.
CalledUnpoisoned == req # Idle /\ ~p0

\* Key k is stored in map m with a deadline strictly before clock reading t.
ExpiredIn(m, k, t) ==
    k \in DOMAIN m /\ m[k].expires_at # <<>> /\ m[k].expires_at[1] < t
\* Key k is stored in map m and its deadline, if any, has not passed at t.
LiveIn(m, k, t) == k \in DOMAIN m /\ ~ExpiredIn(m, k, t)

NameOf(f) == IF f.t = "Array" /\ Len(f.v) > 0 THEN f.v[1] ELSE Idle

\* C1: lazy expiry on reads.  Whenever a key k is stored with a deadline
\* strictly earlier than the clock reading, GET k replies Null, TTL k replies
\* -2, STRLEN k replies 0, MGET replies Null at every position naming k and
\* KEYS * omits k; and when the command has returned k is not in the map.
C1_LazyExpiryOnReads ==
    \A k \in Keys :
        (Returned /\ ExpiredIn(db0, k, t0)) =>
            /\ req = Request(GET, <<BulkString(k)>>) =>
                   reply = Null /\ k \notin DOMAIN db
            /\ req = Request(TTL, <<BulkString(k)>>) =>
                   reply = Integer(0 - 2) /\ k \notin DOMAIN db
            /\ req = Request(STRLEN, <<BulkString(k)>>) =>
                   reply = Integer(0) /\ k \notin DOMAIN db
            /\ (/\ NameOf(req) = BulkString(MGET)
                /\ \E i \in 2..Len(req.v) : req.v[i] = BulkString(k)) =>
                   /\ reply.t = "Array"
                   /\ Len(reply.v) = Len(req.v) - 1
                   /\ \A i \in 2..Len(req.v) :
                          req.v[i] = BulkString(k) => reply.v[i - 1] = Null
                   /\ k \notin DOMAIN db
            /\ req = Request(KEYS, <<BulkString(<<42>>)>>) =>
                   /\ reply.t = "Array"
                   /\ \A i \in DOMAIN reply.v : reply.v[i] # BulkString(k)
                   /\ k \notin DOMAIN db

\* A GET of an expired key "a" returned Null while "b" stayed stored.
C1_Witness ==
    /\ Returned
    /\ req = Request(GET, <<KA>>)
    /\ ExpiredIn(db0, KA.v, t0)
    /\ reply = Null
    /\ KB.v \in DOMAIN db

\* The reply handle_command gives to `frame` in the state the last call left,
\* at clock reading t.
ReplyAfter(frame, m, p, t) ==
    handle_command(frame, m, p, [now |-> t, now2 |-> t, order |-> AnyOrder]).reply

\* C2: EXISTS replies the number of argument positions that hold a BulkString
\* whose key is present and not expired (duplicates counted), and an expired
\* key named by an argument is removed before EXISTS returns.
C2_ExistsCountsLiveKeys ==
    (CalledUnpoisoned /\ NameOf(req) = BulkString(EXISTS) /\ Len(req.v) >= 2) =>
        /\ reply = Integer(Cardinality({i \in 2..Len(req.v) :
                       /\ req.v[i].t = "BulkString"
                       /\ LiveIn(db0, req.v[i].v, t0)}))
        /\ \A i \in 2..Len(req.v) :
               (req.v[i].t = "BulkString" /\ ExpiredIn(db0, req.v[i].v, t0)) =>
                   req.v[i].v \notin DOMAIN db

\* C3: DEL replies the number of distinct argument keys that exist, a key
\* whose expiry has passed counting as not existing; afterwards none of the
\* BulkString argument keys is in the map and every other entry is untouched.
C3_DelCountsLiveKeys ==
    (CalledUnpoisoned /\ NameOf(req) = BulkString(DEL) /\ Len(req.v) >= 2) =>
        LET named == {req.v[i].v : i \in {j \in 2..Len(req.v) : req.v[j].t = "BulkString"}}
        IN  /\ reply = Integer(Cardinality({k \in named : LiveIn(db0, k, t0)}))
            /\ DOMAIN db = (DOMAIN db0) \ named
            /\ \A k \in DOMAIN db : db[k] = db0[k]

\* C4: SET preserves expiry.  For a key that is present and not expired,
\* SET k v2 replies OK, replaces the data and leaves expires_at and every
\* other entry as they were; and once EXPIRE k N (N > 0) has returned 1, a
\* following SET k v2 made before the deadline makes TTL k return an integer in
\* [0, N] and GET k return v2 for as long as the deadline has not passed.
C4_SetPreservesExpiry ==
    \A k \in Keys :
        /\ (/\ Returned
            /\ NameOf(req) = BulkString(SET) /\ Len(req.v) = 3
            /\ req.v[2] = BulkString(k) /\ req.v[3].t = "BulkString"
            /\ LiveIn(db0, k, t0)) =>
               /\ reply = SimpleString("OK")
               /\ DOMAIN db = DOMAIN db0
               /\ db[k] = [data |-> req.v[3].v, expires_at |-> db0[k].expires_at]
               /\ \A x \in (DOMAIN db) \ {k} : db[x] = db0[x]
        /\ \A secs \in {S1, SMax} :
           (/\ Returned
            /\ req = Request(EXPIRE, <<BulkString(k), secs>>)
            /\ reply = Integer(1)) =>
               LET N == IF secs = S1 THEN 1 ELSE I64_MAX
                   deadline == t0 + N * TicksPerSec
               IN  \A v2 \in {VX, VP} : \A t1 \in now..deadline : \A t2 \in t1..deadline :
                     LET r1 == handle_command(Request(SET, <<BulkString(k), v2>>), db, poisoned,
                                   [now |-> t1, now2 |-> t1, order |-> AnyOrder])
                         ttl == ReplyAfter(Request(TTL, <<BulkString(k)>>), r1.db, r1.poisoned, t2)
                         get == ReplyAfter(Request(GET, <<BulkString(k)>>), r1.db, r1.poisoned, t2)
                     IN  /\ r1.reply = SimpleString("OK")
                         /\ ttl.t = "Integer" /\ ttl.v \in 0..N
                         /\ get = v2

\* SET "+01" replaced the data "x" of a live key "a" that carries a deadline.
C4_Witness ==
    /\ Returned
    /\ req = Request(SET, <<KA, VP>>)
    /\ LiveIn(db0, KA.v, t0)
    /\ db0[KA.v].expires_at # <<>>
    /\ db0[KA.v].data = VX.v
    /\ db[KA.v].data = VP.v

\* C5: SET on a logically absent key (missing, or stored with a deadline that
\* has passed) behaves as if the key did not exist: right after it GET k
\* returns BulkString(v) and TTL k returns -1.
C5_SetOnAbsentCreatesLive ==
    \A k \in Keys :
        (/\ CalledUnpoisoned
         /\ NameOf(req) = BulkString(SET) /\ Len(req.v) = 3
         /\ req.v[2] = BulkString(k) /\ req.v[3].t = "BulkString"
         /\ ~LiveIn(db0, k, t0)) =>
            /\ ReplyAfter(Request(GET, <<BulkString(k)>>), db, poisoned, now) = req.v[3]
            /\ ReplyAfter(Request(TTL, <<BulkString(k)>>), db, poisoned, now) = Integer(0 - 1)

\* The value the last BulkString/BulkString pair of an MSET request gives key k
\* (pairs start at frame 2 of the request).
RECURSIVE LastPairValue(_, _, _, _)
LastPairValue(fs, i, k, acc) ==
    IF i + 1 > Len(fs) THEN acc
    ELSE IF fs[i] = BulkString(k) /\ fs[i + 1].t = "BulkString"
         THEN LastPairValue(fs, i + 2, k, <<fs[i + 1].v>>)
         ELSE LastPairValue(fs, i + 2, k, acc)

\* C6: MSET and GETSET clear expiry.  After MSET has written a pair (k, v), or
\* GETSET k v has run, k is stored with data v and no expiry whatever its
\* earlier expiry was, so TTL k returns -1; GETSET replies the previous data
\* if k was present and unexpired and Null if it was missing or expired.
C6_MsetGetsetClearExpiry ==
    \A k \in Keys :
        /\ (/\ Returned
            /\ NameOf(req) = BulkString(MSET)
            /\ reply = SimpleString("OK")
            /\ LastPairValue(req.v, 2, k, <<>>) # <<>>) =>
               /\ k \in DOMAIN db
               /\ db[k] = [data |-> LastPairValue(req.v, 2, k, <<>>)[1], expires_at |-> <<>>]
               /\ ReplyAfter(Request(TTL, <<BulkString(k)>>), db, poisoned, now) = Integer(0 - 1)
        /\ (/\ Returned
            /\ NameOf(req) = BulkString(GETSET) /\ Len(req.v) = 3
            /\ req.v[2] = BulkString(k) /\ req.v[3].t = "BulkString") =>
               /\ k \in DOMAIN db
               /\ db[k] = [data |-> req.v[3].v, expires_at |-> <<>>]
               /\ ReplyAfter(Request(TTL, <<BulkString(k)>>), db, poisoned, now) = Integer(0 - 1)
               /\ LiveIn(db0, k, t0) => reply = BulkString(db0[k].data)
               /\ ~LiveIn(db0, k, t0) => reply = Null

\* GETSET on a live key "a" that carried a deadline returned its old data.
C6_Witness ==
    /\ Returned
    /\ req = Request(GETSET, <<KA, VP>>)
    /\ LiveIn(db0, KA.v, t0)
    /\ db0[KA.v].expires_at # <<>>
    /\ reply = BulkString(db0[KA.v].data)
    /\ db[KA.v].expires_at = <<>>

\* The integer a decimal text stands for, by positional value: an optional
\* sign, then digits.
RECURSIVE DecValue(_)
DecValue(ds) ==
    IF Len(ds) = 0 THEN 0
    ELSE DecValue(SubSeq(ds, 1, Len(ds) - 1)) * 10 + (ds[Len(ds)] - 48)
Unsigned(text) == IF Len(text) > 0 /\ text[1] \in {43, 45} THEN Tail(text) ELSE text
IsDecimal(text) ==
    /\ Len(Unsigned(text)) > 0
    /\ \A i \in 1..Len(Unsigned(text)) : Unsigned(text)[i] \in 48..57
Denoted(text) ==
    IF text[1] = 45 THEN 0 - DecValue(Unsigned(text)) ELSE DecValue(Unsigned(text))
IsI64Text(text) == IsDecimal(text) /\ Denoted(text) \in I64_MIN..I64_MAX

\* C7: EXPIRE k s with s a decimal i64.  If k is not stored it replies 0 and
\* the map is unchanged; if k is stored and s <= 0 it removes k and replies 1;
\* if k is stored and s > 0 it replies 1, sets expires_at to now + s seconds
\* and leaves the data unchanged.
C7_ExpireSemantics ==
    \A k \in Keys :
        (/\ CalledUnpoisoned
         /\ NameOf(req) = BulkString(EXPIRE) /\ Len(req.v) = 3
         /\ req.v[2] = BulkString(k)
         /\ req.v[3].t = "BulkString" /\ IsI64Text(req.v[3].v)) =>
            LET s == Denoted(req.v[3].v)
            IN  /\ k \notin DOMAIN db0 => reply = Integer(0) /\ db = db0
                /\ (k \in DOMAIN db0 /\ s <= 0) =>
                       /\ reply = Integer(1)
                       /\ DOMAIN db = (DOMAIN db0) \ {k}
                       /\ \A x \in DOMAIN db : db[x] = db0[x]
                /\ (k \in DOMAIN db0 /\ s > 0) =>
                       /\ reply = Integer(1)
                       /\ DOMAIN db = DOMAIN db0
                       /\ db[k] = [data |-> db0[k].data,
                                   expires_at |-> <<t0 + s * TicksPerSec>>]
                       /\ \A x \in (DOMAIN db) \ {k} : db[x] = db0[x]

\* C8: EXPIRE never revives an expired key.  If k is stored with a deadline
\* that has passed, EXPIRE k s replies 0 and afterwards k is not in the map
\* (GET k returns Null, TTL k returns -2).
C8_ExpireNeverRevives ==
    \A k \in Keys :
        (/\ CalledUnpoisoned
         /\ NameOf(req) = BulkString(EXPIRE) /\ Len(req.v) = 3
         /\ req.v[2] = BulkString(k)
         /\ req.v[3].t = "BulkString" /\ IsI64Text(req.v[3].v)
         /\ ExpiredIn(db0, k, t0)) =>
            /\ reply = Integer(0)
            /\ k \notin DOMAIN db
            /\ ReplyAfter(Request(GET, <<BulkString(k)>>), db, poisoned, now) = Null
            /\ ReplyAfter(Request(TTL, <<BulkString(k)>>), db, poisoned, now) = Integer(0 - 2)

\* The latest clock reading a deadline set within MaxTime can be checked at.
Horizon == MaxTime + (I64_MAX + 1) * TicksPerSec

\* C9: expiry observability.  After SET k v: EXPIRE k 0 makes GET k return
\* Null and TTL k return -2; EXPIRE k N with N > 0 makes TTL k return the whole
\* seconds remaining, an integer in [0, N], while the deadline has not passed
\* and -2 once it has; and TTL of a present key with no expiry is -1.
C9_ExpiryObservable ==
    \A k \in Keys :
        (/\ Returned
         /\ NameOf(req) = BulkString(SET) /\ Len(req.v) = 3
         /\ req.v[2] = BulkString(k) /\ req.v[3].t = "BulkString") =>
            /\ db[k].expires_at = <<>> =>
                   ReplyAfter(Request(TTL, <<BulkString(k)>>), db, poisoned, now) = Integer(0 - 1)
            /\ \A t1 \in now..MaxTime : \A t2 \in t1..Horizon :
                 LET e0 == handle_command(Request(EXPIRE, <<BulkString(k), S0>>), db, poisoned,
                               [now |-> t1, now2 |-> t1, order |-> AnyOrder])
                 IN  /\ ReplyAfter(Request(GET, <<BulkString(k)>>), e0.db, e0.poisoned, t2) = Null
                     /\ ReplyAfter(Request(TTL, <<BulkString(k)>>), e0.db, e0.poisoned, t2)
                            = Integer(0 - 2)
            /\ \A secs \in {S1, SMax} : \A t1 \in now..MaxTime : \A t2 \in t1..Horizon :
                 LET N == Denoted(secs.v)
                     deadline == t1 + N * TicksPerSec
                     e == handle_command(Request(EXPIRE, <<BulkString(k), secs>>), db, poisoned,
                              [now |-> t1, now2 |-> t1, order |-> AnyOrder])
                     ttl == ReplyAfter(Request(TTL, <<BulkString(k)>>), e.db, e.poisoned, t2)
                 IN  /\ t2 <= deadline =>
                            /\ ttl = Integer((deadline - t2) \div TicksPerSec)
                            /\ ttl.v \in 0..N
                     /\ t2 > deadline => ttl = Integer(0 - 2)

\* C10: INCR/DECR value.  INCR k (DECR k) replies Integer(n), n being cur + 1
\* (cur - 1) clamped to the signed range, where cur is 0 if k is missing or
\* expired (the stale expiry is then cleared) and otherwise the integer the
\* stored text denotes; the stored data becomes the decimal text of n and
\* parses back to n.
Clamp(x) == IF x > I64_MAX THEN I64_MAX ELSE IF x < I64_MIN THEN I64_MIN ELSE x
C10_IncrValue ==
    \A k \in Keys : \A amount \in {1, 0 - 1} :
        (/\ Returned
         /\ req = Request(IF amount = 1 THEN INCR ELSE DECR, <<BulkString(k)>>)
         /\ (LiveIn(db0, k, t0) => IsI64Text(db0[k].data))) =>
            LET cur == IF LiveIn(db0, k, t0) THEN Denoted(db0[k].data) ELSE 0
                n == Clamp(cur + amount)
            IN  /\ reply = Integer(n)
                /\ k \in DOMAIN db
                /\ IsI64Text(db[k].data) /\ Denoted(db[k].data) = n
                /\ db[k].data[1] # 43
                /\ Len(db[k].data) > 1 => db[k].data[IF n < 0 THEN 2 ELSE 1] # 48
                /\ ~LiveIn(db0, k, t0) => db[k].expires_at = <<>>
                /\ ReplyAfter(Request(GET, <<BulkString(k)>>), db, poisoned, now)
                       = BulkString(db[k].data)
                /\ (k \notin DOMAIN db0 /\ amount = 1) => db[k].data = <<49>>

\* INCR on a live key holding the text of the largest integer replied that
\* same integer and left the text in place.
C10_Witness ==
    /\ Returned
    /\ req = Request(INCR, <<KA>>)
    /\ LiveIn(db0, KA.v, t0)
    /\ db0[KA.v].data = to_string(I64_MAX)
    /\ reply = Integer(I64_MAX)
    /\ db[KA.v].data = db0[KA.v].data

\* C11: INCR and DECR reject non-integers without side effect.  If k is stored
\* and not expired and its bytes are not the decimal text of an integer of the
\* signed range (invalid UTF-8 included), INCR k and DECR k reply an Error
\* frame and leave the whole map, k's data and expiry included, as it was.
C11_IncrRejectsNonInteger ==
    \A k \in Keys : \A name \in {INCR, DECR} :
        (/\ CalledUnpoisoned
         /\ req = Request(name, <<BulkString(k)>>)
         /\ LiveIn(db0, k, t0)
         /\ ~IsI64Text(db0[k].data)) =>
            /\ reply.t = "Error"
            /\ db = db0

\* INCR met a live key "a" that holds the byte 0xFF and carries a deadline,
\* and replied an Error.
C11_Witness ==
    /\ CalledUnpoisoned
    /\ req = Request(INCR, <<KA>>)
    /\ LiveIn(db0, KA.v, t0)
    /\ db0[KA.v] = [data |-> VBad.v, expires_at |-> db0[KA.v].expires_at]
    /\ db0[KA.v].expires_at # <<>>
    /\ reply.t = "Error"

\* C15: store operations never fail and never harm other connections.  For
\* every key k that is present and not expired and every s with
\* 0 < s <= the largest signed integer, EXPIRE k s replies 1 and sets the
\* deadline to now + s; no command aborts inside the critical section (every
\* dispatched request gets a reply), so the Mutex is never left poisoned for
\* the commands of other connections.
C15_StoreOpsNeverFail ==
    /\ \A k \in Keys :
        (/\ CalledUnpoisoned
         /\ NameOf(req) = BulkString(EXPIRE) /\ Len(req.v) = 3
         /\ req.v[2] = BulkString(k)
         /\ req.v[3].t = "BulkString" /\ IsI64Text(req.v[3].v)
         /\ Denoted(req.v[3].v) > 0
         /\ LiveIn(db0, k, t0)) =>
            /\ reply = Integer(1)
            /\ k \in DOMAIN db
            /\ db[k].expires_at = <<t0 + Denoted(req.v[3].v) * TicksPerSec>>
    /\ req # Idle => reply # NoReply
    /\ ~poisoned

\* The name of the request, uppercased, when it is a BulkString; <<>> if not.
BulkNameUpper(f) ==
    IF NameOf(f).t = "BulkString"
    THEN [i \in 1..Len(NameOf(f).v) |->
             IF NameOf(f).v[i] \in 97..122 THEN NameOf(f).v[i] - 32 ELSE NameOf(f).v[i]]
    ELSE <<>>

\* C16: APPEND is a reachable command.  A request named APPEND (in any case)
\* with key k and BulkString v replies Integer(len(old) + len(v)), old being
\* k's data, or empty if k is missing or expired, and afterwards GET k returns
\* old followed by v.
C16_AppendReachable ==
    \A k \in Keys :
        (/\ CalledUnpoisoned
         /\ BulkNameUpper(req) = APPEND /\ Len(req.v) = 3
         /\ req.v[2] = BulkString(k) /\ req.v[3].t = "BulkString") =>
            LET old == IF LiveIn(db0, k, t0) THEN db0[k].data ELSE <<>>
            IN  /\ reply = Integer(Len(old) + Len(req.v[3].v))
                /\ ReplyAfter(Request(GET, <<BulkString(k)>>), db, poisoned, now)
                       = BulkString(old \o req.v[3].v)

\* The command table of the specification.
CommandTable ==
    {PING, ECHO, COMMAND, SET, GET, DEL, EXISTS, EXPIRE, TTL, INCR, DECR, KEYS,
     MSET, MGET, STRLEN, GETSET, APPEND}
UpperCase(bytes) ==
    [i \in 1..Len(bytes) |-> IF bytes[i] \in 97..122 THEN bytes[i] - 32 ELSE bytes[i]]
LowerCase(bytes) ==
    [i \in 1..Len(bytes) |-> IF bytes[i] \in 65..90 THEN bytes[i] + 32 ELSE bytes[i]]
\* The bytes of the name of a request whose first frame is a BulkString or a
\* SimpleString, and the same request under another name.
NameBytes(f) == IF f.v[1].t = "BulkString" THEN f.v[1].v ELSE f.v[1].v[2]
WithName(f, n) ==
    Array(<<[t |-> f.v[1].t, v |-> IF f.v[1].t = "BulkString" THEN n ELSE <<"", n>>]>>
          \o Tail(f.v))
\* The clock readings and iteration orders a call of request f made at t can
\* meet: TTL reads the clock a second time, KEYS iterates over the map.
EnvsAt(f, t) ==
    IF UpperCase(NameBytes(f)) = TTL THEN [now : {t}, now2 : {t, t + 1}, order : {AnyOrder}]
    ELSE IF UpperCase(NameBytes(f)) = KEYS THEN [now : {t}, now2 : {t}, order : Orders]
    ELSE [now : {t}, now2 : {t}, order : {AnyOrder}]
\* "ERR unknown command '" and "'"
UnknownPrefix ==
    <<69, 82, 82, 32, 117, 110, 107, 110, 111, 119, 110, 32, 99, 111, 109, 109, 97,
      110, 100, 32, 39>>
Quote == <<39>>

\* C17: the dispatcher envelope.  A request that is not an Array replies
\* "ERR command must be an array"; an empty Array replies "ERR empty command";
\* a first element that is neither BulkString nor SimpleString replies
\* "ERR invalid command format"; a name dispatches the same in every letter
\* case (the outcome of the request is the outcome of the same request with
\* its name in upper case and in lower case); a name outside the command table replies
\* "ERR unknown command '<NAME>'" with the name uppercased; none of these
\* touches the store.
C17_DispatcherEnvelope ==
    req # Idle =>
        /\ req.t # "Array" =>
               /\ reply = Error("ERR command must be an array")
               /\ db = db0 /\ poisoned = p0
        /\ (req.t = "Array" /\ Len(req.v) = 0) =>
               /\ reply = Error("ERR empty command")
               /\ db = db0 /\ poisoned = p0
        /\ (req.t = "Array" /\ Len(req.v) > 0
            /\ req.v[1].t \notin {"BulkString", "SimpleString"}) =>
               /\ reply = Error("ERR invalid command format")
               /\ db = db0 /\ poisoned = p0
        /\ (req.t = "Array" /\ Len(req.v) > 0
            /\ req.v[1].t \in {"BulkString", "SimpleString"}) =>
               /\ \A other \in {WithName(req, UpperCase(NameBytes(req))),
                                 WithName(req, LowerCase(NameBytes(req)))} \ {req} :
                      \E env \in EnvsAt(req, t0) :
                          LET r == handle_command(other, db0, p0, env)
                          IN  reply = r.reply /\ db = r.db /\ poisoned = r.poisoned
               /\ (/\ \A i \in 1..Len(NameBytes(req)) : NameBytes(req)[i] < 128
                   /\ UpperCase(NameBytes(req)) \notin CommandTable) =>
                      /\ reply.t = "Error"
                      /\ as_bytes(reply.v)
                             = UnknownPrefix \o UpperCase(NameBytes(req)) \o Quote
                      /\ db = db0 /\ poisoned = p0

\* A request named "get" found the live key "a" and replied its data.
C17_Witness ==
    /\ req = Request(get_lc, <<KA>>)
    /\ LiveIn(db0, KA.v, t0)
    /\ reply = BulkString(db0[KA.v].data)

\* "ERR "
ErrClass == <<69, 82, 82, 32>>

\* C18: every command-error reply uses the "ERR " class.  For a request that
\* names a command of the table, an Error reply (arity and argument-type
\* violations, DEL and EXISTS with no key included) has a text that begins
\* with "ERR ".
C18_ErrPrefix ==
    (/\ req # Idle
     /\ BulkNameUpper(req) \in CommandTable
     /\ reply.t = "Error") =>
        /\ Len(as_bytes(reply.v)) >= Len(ErrClass)
        /\ SubSeq(as_bytes(reply.v), 1, Len(ErrClass)) = ErrClass

\* C19: non-BulkString key/value arguments are rejected without side effect.
\* For SET, GET, EXPIRE, TTL, INCR, DECR, KEYS, STRLEN, GETSET, APPEND and
\* MSET a request with an argument that is not a BulkString replies an Error
\* frame and leaves the map as it was; DEL, EXISTS and MGET pass over such
\* arguments and reply their count or array.
C19_NonBulkRejected ==
    (/\ CalledUnpoisoned
     /\ req.t = "Array"
     /\ \E i \in 2..Len(req.v) : req.v[i].t # "BulkString") =>
        /\ BulkNameUpper(req) \in {SET, GET, EXPIRE, TTL, INCR, DECR, KEYS, STRLEN,
                                   GETSET, APPEND, MSET} =>
               /\ reply.t = "Error"
               /\ db = db0
        /\ BulkNameUpper(req) \in {DEL, EXISTS} => reply.t = "Integer"
        /\ BulkNameUpper(req) = MGET => reply.t = "Array"

\* C20: MSET/MGET shape.  MSET with fewer than 3 elements or an even element
\* count replies "ERR wrong number of arguments for 'mset' command" and writes
\* nothing; otherwise, its pairs being BulkStrings, it writes every pair in
\* order (the last pair of a key wins), touches no other key and replies OK.
\* MGET k1..kn replies an Array of n elements, element i being the data of ki
\* if ki is present and not expired and Null otherwise (Null too for an
\* argument that is not a BulkString).
C20_MsetMgetShape ==
    /\ (req # Idle /\ BulkNameUpper(req) = MSET
        /\ (Len(req.v) < 3 \/ Len(req.v) % 2 = 0)) =>
           /\ reply = Error("ERR wrong number of arguments for 'mset' command")
           /\ db = db0
    /\ (/\ CalledUnpoisoned /\ BulkNameUpper(req) = MSET
        /\ Len(req.v) >= 3 /\ Len(req.v) % 2 = 1
        /\ \A i \in 2..Len(req.v) : req.v[i].t = "BulkString") =>
           LET named == {req.v[2 * j].v : j \in 1..((Len(req.v) - 1) \div 2)}
               last(k) == CHOOSE j \in 1..((Len(req.v) - 1) \div 2) :
                              /\ req.v[2 * j].v = k
                              /\ \A h \in (j + 1)..((Len(req.v) - 1) \div 2) :
                                     req.v[2 * h].v # k
           IN  /\ reply = SimpleString("OK")
               /\ DOMAIN db = (DOMAIN db0) \cup named
               /\ \A k \in named :
                      db[k] = [data |-> req.v[2 * last(k) + 1].v, expires_at |-> <<>>]
               /\ \A k \in (DOMAIN db) \ named : db[k] = db0[k]
    /\ (CalledUnpoisoned /\ BulkNameUpper(req) = MGET /\ Len(req.v) >= 2) =>
           /\ reply.t = "Array"
           /\ Len(reply.v) = Len(req.v) - 1
           /\ \A i \in 1..(Len(req.v) - 1) :
                  reply.v[i] = IF /\ req.v[i + 1].t = "BulkString"
                                  /\ LiveIn(db0, req.v[i + 1].v, t0)
                               THEN BulkString(db0[req.v[i + 1].v].data)
                               ELSE Null

\* MSET a "x" a "+01" replied OK on a map where "a" was live with a deadline,
\* and "a" now holds "+01".
C20_Witness ==
    /\ CalledUnpoisoned
    /\ req = Request(MSET, <<KA, VX, KA, VP>>)
    /\ LiveIn(db0, KA.v, t0)
    /\ db0[KA.v].expires_at # <<>>
    /\ reply = SimpleString("OK")
    /\ db[KA.v].data = VP.v

\* ------------------------------------------------- claims about the tasks
\* What a client reads off its socket: the whole frames among the bytes
\* written to it, in order, and the bytes after the last whole frame.
RECURSIVE Decode(_, _)
Decode(buf, frames) ==
    LET r == parse_frame(buf, TRUE)
    IN  IF r.st = "ok" THEN Decode(r.rest, Append(frames, r.frame))
        ELSE [frames |-> frames, rest |-> buf]
Replies(c) == Decode(out[c], <<>>).frames
\* The values of the Integer frames of a sequence of frames, in order.
RECURSIVE IntegersOf(_)
IntegersOf(frames) ==
    IF Len(frames) = 0 THEN <<>>
    ELSE (IF Head(frames).t = "Integer" THEN <<Head(frames).v>> ELSE <<>>)
         \o IntegersOf(Tail(frames))
\* The Integer replies handle_command has returned to task c: those written,
\* and the one about to be written.
IntegerReplies(c) ==
    IntegersOf(Replies(c))
    \o (IF pc[c] = "write" /\ resp[c].t = "Integer" THEN <<resp[c].v>> ELSE <<>>)
RECURSIVE AllIntegerReplies(_)
AllIntegerReplies(n) ==
    IF n = 0 THEN <<>> ELSE AllIntegerReplies(n - 1) \o IntegerReplies(n)
\* How many of the chunks sent so far are f.
RECURSIVE CountSent(_, _)
CountSent(n, f) ==
    IF n = 0 THEN 0
    ELSE CountSent(n - 1, f) + Cardinality({i \in 1..Len(sent[n]) : sent[n][i] = f})

\* C12: store operations are atomic across connections.  With key "a" absent
\* at the start, INCR a its only writer, no more INCRs than the signed range
\* counts and no reply lost to a failed write, the INCR replies of all
\* connections together are the integers 1..m, each once, the stored text
\* denotes m, and a task that has read the value under the guard has read m:
\* no INCR meets another one half done.
C12_IncrAtomic ==
    (/\ CountSent(NConns, ExpireMax) = 0
     /\ CountSent(NConns, IncrA) <= I64_MAX
     /\ \A c \in Conns : exit[c] # "write") =>
        LET vals == AllIntegerReplies(NConns)
            m == Len(vals)
        IN  /\ {vals[i] : i \in 1..m} = 1..m
            /\ m = 0 => KA.v \notin DOMAIN db
            /\ m > 0 =>
                   /\ KA.v \in DOMAIN db
                   /\ IsI64Text(db[KA.v].data) /\ Denoted(db[KA.v].data) = m
            /\ \A c \in Conns : pc[c] = "store" => local[c].reply = Integer(m + 1)

\* Both clients have their INCR replies: 1 and 3 on the first connection, 2
\* on the second.
C12_Witness ==
    /\ Replies(1) = <<Integer(1), Integer(3)>>
    /\ Replies(2) = <<Integer(2)>>

\* Whether r can be the reply to request f.
Matches(f, r) ==
    CASE f = IncrA -> r.t = "Integer" /\ r.v >= 1
      [] f = EchoX -> r = VX
      [] f = ExpireMax -> r.t = "Integer" /\ r.v \in {0, 1}
      [] f \in CommandErrorFrames -> r.t = "Error"
      [] OTHER -> FALSE

\* C13: per-connection ordering.  On each connection the reply to request n
\* is written in full before request n+1 is parsed and dispatched, every
\* request parse_frame returned gets exactly one reply (but for a request whose
\* write failed, which ends the connection), and the replies stand on the wire
\* in the order of the requests.
C13_PerConnectionOrder ==
    \A c \in Conns :
        LET R == Replies(c)
            n == nreq[c]
        IN  /\ exit[c] # "write" => Decode(out[c], <<>>).rest = <<>>
            /\ pc[c] \in {"call", "locked", "store", "write"} => Len(R) = n - 1
            /\ pc[c] = "parse" => Len(R) = n
            /\ (pc[c] = "closed" /\ exit[c] = "write") => Len(R) = n - 1
            /\ (pc[c] = "closed" /\ exit[c] # "write") => Len(R) = n
            /\ Len(R) <= Len(sent[c])
            /\ \A i \in 1..Len(R) : Matches(sent[c][i], R[i])
            /\ CountSent(NConns, IncrA) <= I64_MAX =>
                   \A i, j \in 1..Len(R) :
                       (i < j /\ sent[c][i] = IncrA /\ sent[c][j] = IncrA) =>
                           R[i].v < R[j].v

\* C14: two error planes in the connection loop.  A command error (bad arity,
\* wrong argument type, unknown command, unsupported KEYS pattern, non-integer
\* EXPIRE argument) gets one Error frame as its reply and the loop goes on to
\* the next parse; a framing error or a failed write gets no reply frame and
\* ends the loop; the end of the stream before the first byte of a frame ends
\* the loop with nothing written.
C14_TwoErrorPlanes ==
    \A c \in Conns :
        LET R == Replies(c)
            n == nreq[c]
        IN  /\ \A i \in 1..Len(R) :
                   (i <= Len(sent[c]) /\ sent[c][i] \in CommandErrorFrames) =>
                       R[i].t = "Error"
            /\ (n >= 1 /\ sent[c][n] \in CommandErrorFrames) =>
                   \/ pc[c] \in {"call", "write"} /\ Len(R) = n - 1
                   \/ pc[c] = "parse" /\ Len(R) = n
                   \/ pc[c] = "closed" /\ exit[c] = "write" /\ Len(R) = n - 1
                   \/ pc[c] = "closed" /\ exit[c] \in {"eof", "framing"} /\ Len(R) = n
            /\ exit[c] # "" <=> pc[c] = "closed"
            /\ exit[c] = "framing" =>
                   /\ Len(R) = n
                   /\ Decode(out[c], <<>>).rest = <<>>
                   /\ inbuf[c] # <<>>
            /\ exit[c] = "write" => Len(R) = n - 1
            /\ exit[c] = "eof" =>
                   /\ eof[c] /\ inbuf[c] = <<>>
                   /\ Len(R) = n
                   /\ Decode(out[c], <<>>).rest = <<>>

\* The first client sent GET with no key and then bytes that are no frame: it
\* has one Error frame, and the loop has ended on the framing error.
C14_Witness ==
    /\ sent[1] = <<Request(GET, <<>>), Garbage>>
    /\ nreq[1] = 1
    /\ Len(Replies(1)) = 1
    /\ Replies(1)[1].t = "Error"
    /\ exit[1] = "framing"

\* A whole request n of connection c lies in the reader and the task is at
\* parse_frame for it.
ReceivedRequest(c, n) ==
    /\ pc[c] = "parse"
    /\ nreq[c] = n - 1
    /\ parse_frame(inbuf[c], eof[c]).st = "ok"
\* Every received request is replied, unless the write to the client fails.
C21_Replied ==
    \A c \in Conns : \A n \in 1..MaxReq :
        ReceivedRequest(c, n) ~> (Len(Replies(c)) >= n \/ exit[c] = "write")
\* The same, but for the tasks that end in a panic.
C21_RepliedUnlessPanic ==
    \A c \in Conns : \A n \in 1..MaxReq :
        ReceivedRequest(c, n) ~>
            (Len(Replies(c)) >= n \/ exit[c] = "write" \/ exit[c] = "panic")
\* Every connection in the backlog is accepted.
C21_Accepted == \A c \in Conns : (pc[c] = "pending") ~> (pc[c] # "pending")
\* The guard is held inside handle_command only, by one task, which is not
\* waiting for the lock.
C21_LockScoped ==
    [](\A c \in Conns : mutex = c <=> pc[c] \in {"locked", "store"})

\* C21: liveness without deadlock.  Under fair scheduling every request that
\* is completely received on an open connection eventually gets its reply,
\* every pending connection is eventually accepted whatever the other
\* connections do, and the store lock is held only inside handle_command,
\* never across a read or a write, by a task that takes no second lock.
C21_Liveness == C21_Replied /\ C21_Accepted /\ C21_LockScoped

\* The frame parse_frame returns for an item written to the stream: the frame
\* itself, Null for "*-1" and Integer(1) for ":+1".
Expect(item) ==
    IF item.t # "Garbage" THEN item
    ELSE IF item.v = NullArrayBytes THEN Null
    ELSE Integer(1)
\* The bytes of a sequence of items on the wire.
RECURSIVE WireBytes(_)
WireBytes(items) ==
    IF Len(items) = 0 THEN <<>>
    ELSE chunk_bytes(Head(items)) \o WireBytes(Tail(items))

\* C22: the round-trip law.  A frame of the data model (texts without CR or
\* LF, integers up to both limits, any bytes, nested arrays, Null) written by
\* serialize_frame is returned by parse_frame as an equal frame and is never
\* rejected; decimal text of every i64 parses back to it; "$-1" and "*-1"
\* both parse to Null, and serialize_frame writes "$-1" CR LF for Null.
C22_RoundTrip ==
    /\ (nreq[1] >= 1 /\ sent[1][nreq[1]].t # "Garbage") =>
           cframe[1] = sent[1][nreq[1]]
    /\ exit[1] \in {"framing", "panic"} =>
           /\ nreq[1] < Len(sent[1])
           /\ sent[1][nreq[1] + 1].t = "Garbage"
    /\ (nreq[1] >= 1 /\ sent[1][nreq[1]] \in {Null, Raw(NullArrayBytes)}) =>
           cframe[1] = Null
    /\ serialize_frame(Null) = <<36, 45, 49, 13, 10>>
    /\ \A n \in I64_MIN..I64_MAX : parse_i64(to_string(n)) = [ok |-> TRUE, val |-> n]

\* The nested array came back from the stream as it was written.
C22_Witness ==
    /\ sent[1] = <<Nested>>
    /\ nreq[1] = 1
    /\ cframe[1] = Nested
    /\ inbuf[1] = <<>>

\* C23: framing.  A successful parse_frame takes exactly the bytes of one
\* frame off the reader: after n successful calls the reader holds the bytes
\* of the items written after the n-th, all of them and nothing else, and the
\* frame returned last is the n-th item, so that concatenated frames come back
\* one by one in order.
C23_Framing ==
    /\ nreq[1] <= Len(sent[1])
    /\ inbuf[1] = WireBytes(SubSeq(sent[1], nreq[1] + 1, Len(sent[1])))
    /\ nreq[1] >= 1 => cframe[1] = Expect(sent[1][nreq[1]])

\* A bulk string whose bytes read as a Null frame, then the nested array: the
\* second call returned the array and left the reader empty.
C23_Witness ==
    /\ sent[1] = <<BulkString(<<36, 45, 49, 13, 10>>), Nested>>
    /\ nreq[1] = 2
    /\ cframe[1] = Nested
    /\ inbuf[1] = <<>>

\* C24: negative lengths are framing errors.  When the next item on the
\* stream is a '$' or '*' frame with a length below -1, alone or inside an
\* Array, parse_frame returns no frame for it and the reading ends with a
\* framing error (an Err returned), not with a panic.
C24_NegativeLengthIsFramingError ==
    (/\ nreq[1] < Len(sent[1])
     /\ sent[1][nreq[1] + 1] \in {Raw(b) : b \in NegativeLengthInputs}
     /\ pc[1] = "closed") =>
        exit[1] = "framing"

\* No CR and no LF in the text of a SimpleString or Error frame, at any depth.
RECURSIVE NoCRLF(_)
NoCRLF(f) ==
    IF f.t \in {"SimpleString", "Error"}
    THEN \A i \in 1..Len(as_bytes(f.v)) : as_bytes(f.v)[i] \notin {13, 10}
    ELSE IF f.t = "Array" THEN \A i \in 1..Len(f.v) : NoCRLF(f.v[i])
    ELSE TRUE

\* C25: replies are well-formed frames.  Whatever the request, the reply
\* handle_command returns has no CR and no LF in a SimpleString or Error
\* text, and the bytes serialize_frame writes for it read as exactly one
\* frame with no byte left over.
C25_RepliesWellFormed ==
    Returned =>
        /\ NoCRLF(reply)
        /\ Len(Decode(serialize_frame(reply), <<>>).frames) = 1
        /\ Decode(serialize_frame(reply), <<>>).rest = <<>>
\* The same, but for a command name that holds CR or LF.
C25_WellFormedUnlessNameHasCRLF ==
    (/\ Returned /\ req.t = "Array" /\ Len(req.v) > 0
     /\ req.v[1].t \in {"BulkString", "SimpleString"}
     /\ \E i \in 1..Len(NameBytes(req)) : NameBytes(req)[i] \in {13, 10})
    \/ C25_RepliesWellFormed

====
